---- MODULE Spec2Model ----
(***************************************************************************)
(* Verification model of the TigrisSystem solo-heist engine                *)
(* (src/src/engine): the resolution core resolve_solo with the balance and *)
(* item tables it reads, and the in-memory profile store MemorySoloRepo.   *)
(*                                                                         *)
(* Numbers.  The engine computes in IEEE-754 binary32 (Rust f32).  A       *)
(* non-negative finite f32 is the record [m, e] standing for m * 2^(e-23), *)
(* with 2^23 <= m < 2^24, or m = 0 for 0.0.  Every operation rounds to     *)
(* nearest, ties to even, as the hardware does.  The model checker's       *)
(* integers are 32 bits wide, so 48-bit products are formed from 12-bit    *)
(* limbs, and u32 / i64 values near the ends of their range are held as    *)
(* an anchor plus an offset (see U32 and I64 below).                       *)
(***************************************************************************)
EXTENDS Integers, Sequences, FiniteSets, TLC

Pow2(n) == 2 ^ n

F32Zero == [m |-> 0, e |-> 0]

\* floor(log2 n) for 1 <= n < 2^31, by halving the range of the answer
Log2(n) ==
    LET a == IF n >= 65536 THEN 16 ELSE 0
        b == IF n \div Pow2(a) >= 256 THEN a + 8 ELSE a
        c == IF n \div Pow2(b) >= 16 THEN b + 4 ELSE b
        d == IF n \div Pow2(c) >= 4 THEN c + 2 ELSE c
    IN  IF n \div Pow2(d) >= 2 THEN d + 1 ELSE d

\* Round-to-nearest-even of (q + r/d) ulps, 0 <= r < d, at exponent e; q has 24
\* bits.  A carry out of the mantissa renormalises.
F32Round(q, r, d, e) ==
    LET up == (2 * r > d) \/ (2 * r = d /\ q % 2 = 1)
        q1 == IF up THEN q + 1 ELSE q
    IN  IF q1 = 16777216 THEN [m |-> 8388608, e |-> e + 1] ELSE [m |-> q1, e |-> e]

\* Normalise and round an integer w carrying 3 extra low bits (guard, round,
\* sticky): the value is w * 2^(e-26), 0 <= w < 2^28.
F32FromGRS(w, e) ==
    IF w = 0 THEN F32Zero
    ELSE LET k == Log2(w)
         IN  IF k <= 23
             THEN [m |-> w * Pow2(23 - k), e |-> e + k - 26]
             ELSE LET d == Pow2(k - 23)
                  IN  F32Round(w \div d, w % d, d, e + k - 26)

\* `n as f32` for an integer 0 <= n < 2^31
F32FromInt(n) ==
    IF n = 0 THEN F32Zero
    ELSE LET k == Log2(n)
         IN  IF k <= 23
             THEN [m |-> n * Pow2(23 - k), e |-> k]
             ELSE LET d == Pow2(k - 23)
                  IN  F32Round(n \div d, n % d, d, k)

F32Lt(a, b) ==
    IF b.m = 0 THEN FALSE
    ELSE IF a.m = 0 THEN TRUE
    ELSE a.e < b.e \/ (a.e = b.e /\ a.m < b.m)

F32Le(a, b) == a = b \/ F32Lt(a, b)

\* a * b
F32Mul(a, b) ==
    IF a.m = 0 \/ b.m = 0 THEN F32Zero
    ELSE LET ah  == a.m \div 4096
             al  == a.m % 4096
             bh  == b.m \div 4096
             bl  == b.m % 4096
             mid == ah * bl + al * bh
             t   == (mid % 4096) * 4096 + al * bl
             L   == t % 16777216
             H   == ah * bh + (mid \div 4096) + (t \div 16777216)
         IN  IF H >= 8388608
             THEN F32Round(H, L, 16777216, a.e + b.e + 1)
             ELSE F32Round(2 * H + (L \div 8388608), L % 8388608, 8388608, a.e + b.e)

\* The smaller operand shifted right by d bits onto the larger one's grid with
\* 3 extra bits, the lost bits or-ed into the lowest (sticky) bit.
F32Align(m, d) ==
    IF d >= 28 THEN 1
    ELSE LET p == Pow2(d)
             q == (m * 8) \div p
         IN  IF (m * 8) % p = 0 \/ q % 2 = 1 THEN q ELSE q + 1

\* a + b
F32Add(a, b) ==
    IF a.m = 0 THEN b
    ELSE IF b.m = 0 THEN a
    ELSE LET hi == IF F32Lt(a, b) THEN b ELSE a
             lo == IF F32Lt(a, b) THEN a ELSE b
         IN  F32FromGRS(hi.m * 8 + F32Align(lo.m, hi.e - lo.e), hi.e)

\* a - b, for a >= b (every subtraction of the engine has a positive result)
F32Sub(a, b) ==
    IF b.m = 0 THEN a
    ELSE IF a = b THEN F32Zero
    ELSE F32FromGRS(a.m * 8 - F32Align(b.m, a.e - b.e), a.e)

\* a / b, b > 0: long division in 6-bit steps, then guard bits and sticky
F32Div(a, b) ==
    IF a.m = 0 THEN F32Zero
    ELSE LET q0 == a.m \div b.m
             r0 == a.m % b.m
             q1 == (r0 * 64) \div b.m
             r1 == (r0 * 64) % b.m
             q2 == (r1 * 64) \div b.m
             r2 == (r1 * 64) % b.m
             q3 == (r2 * 64) \div b.m
             r3 == (r2 * 64) % b.m
             q4 == (r3 * 64) \div b.m
             r4 == (r3 * 64) % b.m
             q5 == (r4 * 8) \div b.m
             r5 == (r4 * 8) % b.m
             \* q = floor(a.m * 2^27 / b.m), 2^26 < q < 2^28
             q  == q0 * 134217728 + q1 * 2097152 + q2 * 32768 + q3 * 512 + q4 * 8 + q5
             k  == Log2(q)
             d  == Pow2(k - 23)
             \* the remainder of the long division is sticky below the cut
             r  == 2 * (q % d) + (IF r5 = 0 THEN 0 ELSE 1)
         IN  F32Round(q \div d, r, 2 * d, a.e - b.e + k - 27)

\* A decimal literal n/d of the source as the f32 the compiler makes of it
F32Lit(n, d) == F32Div(F32FromInt(n), F32FromInt(d))

\* f32::clamp
F32Clamp(x, lo, hi) == IF F32Lt(x, lo) THEN lo ELSE IF F32Lt(hi, x) THEN hi ELSE x

\* `x as i64` (truncation toward zero), for 0 <= x < 2^31
F32Trunc(x) ==
    IF x.m = 0 THEN 0
    ELSE IF x.e >= 23 THEN x.m * Pow2(x.e - 23)
    ELSE IF x.e < 0 THEN 0
    ELSE x.m \div Pow2(23 - x.e)

\* f32::round (half away from zero), as an integer, for 0 <= x < 2^31
F32RoundInt(x) ==
    IF x.m = 0 THEN 0
    ELSE IF x.e >= 23 THEN x.m * Pow2(x.e - 23)
    ELSE IF x.e < -1 THEN 0
    ELSE (x.m + Pow2(22 - x.e)) \div Pow2(23 - x.e)


\* the f32 literals of the engine's sources, each the binary32 value nearest to
\* the decimal written in the source (m * 2^(e-23))
F32One == [m |-> 8388608, e |-> 0]

\* field vA_B is the literal A.B, field vN the literal N.0
Lit ==
    [v0_05 |-> [m |-> 13421773, e |-> -5],
     v0_08 |-> [m |-> 10737418, e |-> -4],
     v0_15 |-> [m |-> 10066330, e |-> -3],
     v0_25 |-> [m |-> 8388608, e |-> -2],
     v0_35 |-> [m |-> 11744051, e |-> -2],
     v0_5 |-> [m |-> 8388608, e |-> -1],
     v0_6 |-> [m |-> 10066330, e |-> -1],
     v0_65 |-> [m |-> 10905190, e |-> -1],
     v0_7 |-> [m |-> 11744051, e |-> -1],
     v0_75 |-> [m |-> 12582912, e |-> -1],
     v0_8 |-> [m |-> 13421773, e |-> -1],
     v0_85 |-> [m |-> 14260634, e |-> -1],
     v0_9 |-> [m |-> 15099494, e |-> -1],
     v0_95 |-> [m |-> 15938355, e |-> -1],
     v1_05 |-> [m |-> 8808038, e |-> 0],
     v1_08 |-> [m |-> 9059697, e |-> 0],
     v1_10 |-> [m |-> 9227469, e |-> 0],
     v1_15 |-> [m |-> 9646899, e |-> 0],
     v1_2 |-> [m |-> 10066330, e |-> 0],
     v1_25 |-> [m |-> 10485760, e |-> 0],
     v1_3 |-> [m |-> 10905190, e |-> 0],
     v1_4 |-> [m |-> 11744051, e |-> 0],
     v1_5 |-> [m |-> 12582912, e |-> 0],
     v1_6 |-> [m |-> 13421773, e |-> 0],
     v5 |-> [m |-> 10485760, e |-> 2],
     v10 |-> [m |-> 10485760, e |-> 3],
     v12 |-> [m |-> 12582912, e |-> 3],
     v15 |-> [m |-> 15728640, e |-> 3],
     v18 |-> [m |-> 9437184, e |-> 4],
     v22 |-> [m |-> 11534336, e |-> 4],
     v25 |-> [m |-> 13107200, e |-> 4],
     v50 |-> [m |-> 13107200, e |-> 5],
     v95 |-> [m |-> 12451840, e |-> 6],
     v99 |-> [m |-> 12976128, e |-> 6]]

\* every literal above is the decimal of the source rounded to binary32
LiteralsRounded ==
    /\ F32One = F32FromInt(1)
    /\ Lit.v0_05 = F32Lit(5, 100)
    /\ Lit.v0_08 = F32Lit(8, 100)
    /\ Lit.v0_15 = F32Lit(15, 100)
    /\ Lit.v0_25 = F32Lit(25, 100)
    /\ Lit.v0_35 = F32Lit(35, 100)
    /\ Lit.v0_5 = F32Lit(5, 10)
    /\ Lit.v0_6 = F32Lit(6, 10)
    /\ Lit.v0_65 = F32Lit(65, 100)
    /\ Lit.v0_7 = F32Lit(7, 10)
    /\ Lit.v0_75 = F32Lit(75, 100)
    /\ Lit.v0_85 = F32Lit(85, 100)
    /\ Lit.v0_8 = F32Lit(8, 10)
    /\ Lit.v0_9 = F32Lit(9, 10)
    /\ Lit.v0_95 = F32Lit(95, 100)
    /\ Lit.v1_05 = F32Lit(105, 100)
    /\ Lit.v1_08 = F32Lit(108, 100)
    /\ Lit.v1_10 = F32Lit(110, 100)
    /\ Lit.v1_15 = F32Lit(115, 100)
    /\ Lit.v1_2 = F32Lit(12, 10)
    /\ Lit.v1_25 = F32Lit(125, 100)
    /\ Lit.v1_3 = F32Lit(13, 10)
    /\ Lit.v1_4 = F32Lit(14, 10)
    /\ Lit.v1_5 = F32Lit(15, 10)
    /\ Lit.v1_6 = F32Lit(16, 10)
    /\ Lit.v5 = F32FromInt(5)
    /\ Lit.v10 = F32FromInt(10)
    /\ Lit.v12 = F32FromInt(12)
    /\ Lit.v15 = F32FromInt(15)
    /\ Lit.v18 = F32FromInt(18)
    /\ Lit.v22 = F32FromInt(22)
    /\ Lit.v25 = F32FromInt(25)
    /\ Lit.v50 = F32FromInt(50)
    /\ Lit.v95 = F32FromInt(95)
    /\ Lit.v99 = F32FromInt(99)

(***************************************************************************)
(* Fixed-width integers.  A u32 is [k, o] standing for k * 2^32 + o with   *)
(* k = 0 (o >= 0) or k = 1 (o < 0, the values just below 2^32); an i64 is  *)
(* [k, o] standing for k * 2^63 + o with k = 0, k = 1 (o < 0) or k = -1    *)
(* (o >= 0).  Offsets stay far below 2^31.                                 *)
(***************************************************************************)
U32(n) == [k |-> 0, o |-> n]
U32Max == [k |-> 1, o |-> -1]

\* u32::saturating_add(1)
U32SaturatingInc(x) == IF x = U32Max THEN x ELSE [k |-> x.k, o |-> x.o + 1]

\* x >= n for a small constant n
U32Ge(x, n) == x.k = 1 \/ x.o >= n

\* x <= y
U32Le(x, y) == x.k < y.k \/ (x.k = y.k /\ x.o <= y.o)

I64(n) == [k |-> 0, o |-> n]
I64Max == [k |-> 1, o |-> -1]
I64Min == [k |-> -1, o |-> 0]

\* x + d leaves the i64 range
I64Overflows(x, d) == (x.k = 1 /\ x.o + d >= 0) \/ (x.k = -1 /\ x.o + d < 0)

\* x + d in two's complement: past either end the sum wraps to the other end
I64WrappingAdd(x, d) ==
    IF I64Overflows(x, d) THEN [k |-> -x.k, o |-> x.o + d] ELSE [k |-> x.k, o |-> x.o + d]

(***************************************************************************)
(* engine/types.rs                                                         *)
(***************************************************************************)
CrimeMode == {"Standard", "Szybki", "Ostrozny", "Shadow", "Hardcore", "Ryzykowny",
              "Planowany", "Szalony"}
Risk == {"Low", "Medium", "High", "Hardcore"}
None == "None"
ItemKey == {"HackerLaptop", "ProGloves", "Toolkit", "Adrenaline", "SmokeGrenade",
            "LockpickSet"}

NotPlayed == [tag |-> "NotPlayed", diff |-> 0]
MgSuccess == [tag |-> "Success", diff |-> 0]
MgFail == [tag |-> "Fail", diff |-> 0]
Partial(d) == [tag |-> "Partial", diff |-> d]

\* impl Default for PlayerProfile
DefaultProfile ==
    [user_id |-> 0, balance |-> I64(0), heat |-> I64(0), thief_skill |-> 5, pp |-> U32(0)]

(***************************************************************************)
(* engine/balance.rs                                                       *)
(***************************************************************************)
\* r + m for an f32 r and a small whole number m of either sign
F32AddInt(r, m) == IF m < 0 THEN F32Sub(r, F32FromInt(-m)) ELSE F32Add(r, F32FromInt(m))

\* base_chance with the Medium and High rows exchanged
BaseChanceTiersSwapped(mode, risk) ==
    LET r == CASE risk = "Low" -> 62
               [] risk = "Medium" -> 42
               [] risk = "High" -> 52
               [] risk = "Hardcore" -> 32
        m == CASE mode = "Standard" -> 0
               [] mode = "Szybki" -> -3
               [] mode = "Ostrozny" -> 3
               [] mode = "Shadow" -> 2
               [] mode = "Hardcore" -> -6
               [] mode = "Ryzykowny" -> -4
               [] mode = "Planowany" -> 4
               [] mode = "Szalony" -> -8
    IN  F32Clamp(F32AddInt(F32FromInt(r), m), Lit.v5, Lit.v95)

base_chance(mode, risk) ==
    LET r == CASE risk = "Low" -> 62
               [] risk = "Medium" -> 52
               [] risk = "High" -> 42
               [] risk = "Hardcore" -> 32
        m == CASE mode = "Standard" -> 0
               [] mode = "Szybki" -> -3
               [] mode = "Ostrozny" -> 3
               [] mode = "Shadow" -> 2
               [] mode = "Hardcore" -> -6
               [] mode = "Ryzykowny" -> -4
               [] mode = "Planowany" -> 4
               [] mode = "Szalony" -> -8
    IN  F32Clamp(F32AddInt(F32FromInt(r), m), Lit.v5, Lit.v95)

reward_range(mode, risk) ==
    LET base == CASE risk = "Low" -> <<300, 600>>
                  [] risk = "Medium" -> <<600, 1200>>
                  [] risk = "High" -> <<1200, 2400>>
                  [] risk = "Hardcore" -> <<2400, 4200>>
        bump == CASE mode \in {"Planowany", "Shadow"} -> Lit.v1_15
                  [] mode = "Ostrozny" -> Lit.v1_05
                  [] mode = "Standard" -> F32One
                  [] mode = "Ryzykowny" -> Lit.v1_10
                  [] mode = "Szybki" -> Lit.v0_95
                  [] mode = "Hardcore" -> Lit.v1_2
                  [] mode = "Szalony" -> Lit.v1_25
    IN  <<F32Trunc(F32Mul(F32FromInt(base[1]), bump)),
          F32Trunc(F32Mul(F32FromInt(base[2]), bump))>>

heat_gain(risk) ==
    CASE risk = "Low" -> 4
      [] risk = "Medium" -> 7
      [] risk = "High" -> 10
      [] risk = "Hardcore" -> 14

HeatEffects(chance, reward, qte, simon, cooldown, ambush) ==
    [chance_mult |-> chance, reward_mult |-> reward, qte_window_mult |-> qte,
     simon_seq_delta |-> simon, extra_cooldown_secs |-> cooldown,
     ambush_chance_pct |-> ambush]

\* heat is a u32; every value from 100 up is the same to heat.min(100)
base_heat_effects(heat) ==
    LET h == IF heat < 100 THEN heat ELSE 100
    IN  IF h <= 24 THEN HeatEffects(F32One, F32One, F32One, 0, 0, 0)
        ELSE IF h <= 49 THEN HeatEffects(Lit.v0_95, Lit.v0_95, Lit.v0_95, 0, 0, 0)
        ELSE IF h <= 74 THEN HeatEffects(Lit.v0_9, Lit.v0_9, Lit.v0_85, 1, 2, 0)
        ELSE IF h <= 89 THEN HeatEffects(Lit.v0_8, Lit.v0_85, Lit.v0_75, 2, 5, 0)
        ELSE HeatEffects(Lit.v0_65, Lit.v0_75, Lit.v0_6, 3, 10, 20)

risk_factor(r) ==
    CASE r = "Low" -> Lit.v0_7
      [] r = "Medium" -> F32One
      [] r = "High" -> Lit.v1_25
      [] r = "Hardcore" -> Lit.v1_5

mode_scale(m) ==
    CASE m = "Standard" -> [all |-> F32One, simon |-> F32One, ambush |-> F32One]
      [] m = "Szybki" -> [all |-> Lit.v1_10, simon |-> F32One, ambush |-> Lit.v1_10]
      [] m = "Ostrozny" -> [all |-> Lit.v0_85, simon |-> Lit.v0_85, ambush |-> Lit.v0_85]
      [] m = "Shadow" -> [all |-> Lit.v0_9, simon |-> Lit.v0_9, ambush |-> Lit.v0_5]
      [] m = "Hardcore" -> [all |-> Lit.v1_6, simon |-> Lit.v1_3, ambush |-> Lit.v1_6]
      [] m = "Ryzykowny" -> [all |-> Lit.v1_25, simon |-> Lit.v1_15, ambush |-> Lit.v1_4]
      [] m = "Planowany" -> [all |-> Lit.v0_9, simon |-> Lit.v0_85, ambush |-> Lit.v0_9]
      [] m = "Szalony" -> [all |-> Lit.v1_4, simon |-> Lit.v1_25, ambush |-> Lit.v1_5]

\* base_mult is at most 1.0 in every band, so (1.0 - base_mult).max(0.0) is the
\* difference itself; scaled is at most 0.95, so 1.0 - scaled is positive
mix_mult(base_mult, rf, ms) ==
    LET penalty == F32Sub(F32One, base_mult)
        scaled == F32Clamp(F32Mul(F32Mul(penalty, rf), ms), F32Zero, Lit.v0_95)
    IN  F32Clamp(F32Sub(F32One, scaled), Lit.v0_05, Lit.v1_25)

\* the scaling without the risk factor
ScaledRoundWithoutRisk(n, rf, scale) == F32RoundInt(F32Mul(F32FromInt(n), scale))

\* ((n as f32) * rf * scale).round(), cast to an unsigned integer
ScaledRound(n, rf, scale) == F32RoundInt(F32Mul(F32Mul(F32FromInt(n), rf), scale))

heat_effects(mode, risk, heat) ==
    LET base == base_heat_effects(heat)
        rf == risk_factor(risk)
        ms == mode_scale(mode)
        cooldown == ScaledRound(base.extra_cooldown_secs, rf, ms.all)
        ambush == ScaledRound(base.ambush_chance_pct, rf, ms.ambush)
    IN  HeatEffects(mix_mult(base.chance_mult, rf, ms.all),
                    mix_mult(base.reward_mult, rf, ms.all),
                    mix_mult(base.qte_window_mult, rf, ms.all),
                    ScaledRound(base.simon_seq_delta, rf, ms.simon),
                    IF cooldown < 60 THEN cooldown ELSE 60,
                    IF ambush < 100 THEN ambush ELSE 100)

(***************************************************************************)
(* engine/items.rs                                                         *)
(***************************************************************************)
\* the accumulator aggregate starts from
NeutralEffects ==
    [qte_window_mult |-> F32One, qte_grace_ms |-> 0, simon_seq_delta |-> 0,
     simon_time_mult |-> F32One, timer_extend_pct |-> F32Zero,
     heat_reduce_pct |-> F32Zero, payout_bonus_pct |-> F32Zero,
     success_pp_bonus |-> F32Zero, heat_mult |-> F32One, fail_penalty_mult |-> F32One]

\* the loop body with HackerLaptop assigning its window multiplier
ApplyItemLaptopAssigns(eff, it) ==
    CASE it = "HackerLaptop" ->
           [eff EXCEPT !.qte_grace_ms = @ + 40,
                       !.qte_window_mult = Lit.v1_10]
      [] it = "ProGloves" ->
           [eff EXCEPT !.simon_seq_delta = @ - 1,
                       !.simon_time_mult = F32Mul(@, Lit.v1_05)]
      [] it = "Toolkit" ->
           [eff EXCEPT !.payout_bonus_pct = F32Add(@, Lit.v0_05)]
      [] it = "Adrenaline" ->
           [eff EXCEPT !.qte_window_mult = F32Mul(@, Lit.v1_05),
                       !.simon_time_mult = F32Mul(@, Lit.v1_08),
                       !.fail_penalty_mult = F32Mul(@, Lit.v0_9),
                       !.heat_mult = F32Mul(@, Lit.v1_05)]
      [] it = "SmokeGrenade" ->
           [eff EXCEPT !.heat_reduce_pct = F32Add(@, Lit.v0_08),
                       !.timer_extend_pct = F32Add(@, Lit.v0_05)]
      [] it = "LockpickSet" ->
           [eff EXCEPT !.simon_seq_delta = @ - 1]

\* one pass of aggregate's loop body
ApplyItem(eff, it) ==
    CASE it = "HackerLaptop" ->
           [eff EXCEPT !.qte_grace_ms = @ + 40,
                       !.qte_window_mult = F32Mul(@, Lit.v1_10)]
      [] it = "ProGloves" ->
           [eff EXCEPT !.simon_seq_delta = @ - 1,
                       !.simon_time_mult = F32Mul(@, Lit.v1_05)]
      [] it = "Toolkit" ->
           [eff EXCEPT !.payout_bonus_pct = F32Add(@, Lit.v0_05)]
      [] it = "Adrenaline" ->
           [eff EXCEPT !.qte_window_mult = F32Mul(@, Lit.v1_05),
                       !.simon_time_mult = F32Mul(@, Lit.v1_08),
                       !.fail_penalty_mult = F32Mul(@, Lit.v0_9),
                       !.heat_mult = F32Mul(@, Lit.v1_05)]
      [] it = "SmokeGrenade" ->
           [eff EXCEPT !.heat_reduce_pct = F32Add(@, Lit.v0_08),
                       !.timer_extend_pct = F32Add(@, Lit.v0_05)]
      [] it = "LockpickSet" ->
           [eff EXCEPT !.simon_seq_delta = @ - 1]

\* a clamp whose lower bound is never applied
IntClampAbove(x, lo, hi) == IF x > hi THEN hi ELSE x

IntClamp(x, lo, hi) == IF x < lo THEN lo ELSE IF x > hi THEN hi ELSE x

clamp_effects(e) ==
    [qte_window_mult |-> F32Clamp(e.qte_window_mult, Lit.v0_9, Lit.v1_5),
     qte_grace_ms |-> IntClamp(e.qte_grace_ms, 0, 120),
     simon_seq_delta |-> IntClamp(e.simon_seq_delta, -2, 0),
     simon_time_mult |-> F32Clamp(e.simon_time_mult, F32One, Lit.v1_3),
     timer_extend_pct |-> F32Clamp(e.timer_extend_pct, F32Zero, Lit.v0_25),
     heat_reduce_pct |-> F32Clamp(e.heat_reduce_pct, F32Zero, Lit.v0_15),
     payout_bonus_pct |-> F32Clamp(e.payout_bonus_pct, F32Zero, Lit.v0_15),
     success_pp_bonus |-> F32Clamp(e.success_pp_bonus, F32Zero, Lit.v0_15),
     heat_mult |-> F32Clamp(e.heat_mult, Lit.v0_8, Lit.v1_2),
     fail_penalty_mult |-> F32Clamp(e.fail_penalty_mult, Lit.v0_7, Lit.v1_2)]

RECURSIVE AggregateFrom(_, _, _)
AggregateFrom(eff, items, i) ==
    IF i > Len(items) THEN eff ELSE AggregateFrom(ApplyItem(eff, items[i]), items, i + 1)

\* aggregate returning the sums and products as they are
AggregateUnclamped(items) == AggregateFrom(NeutralEffects, items, 1)

aggregate(items) == clamp_effects(AggregateFrom(NeutralEffects, items, 1))

\* the catalog, in the order of the source, with the pp each item requires
ITEM_META ==
    <<[key |-> "LockpickSet", required_pp |-> 0],
      [key |-> "ProGloves", required_pp |-> 5],
      [key |-> "Toolkit", required_pp |-> 10],
      [key |-> "SmokeGrenade", required_pp |-> 15],
      [key |-> "HackerLaptop", required_pp |-> 22],
      [key |-> "Adrenaline", required_pp |-> 30]>>

\* available_items with pp > required_pp for pp >= required_pp
AvailableItemsAbove(pp) ==
    LET avail == SelectSeq(ITEM_META, LAMBDA m : U32Ge(pp, m.required_pp + 1))
    IN  [i \in 1..Len(avail) |-> avail[i].key]

\* ITEM_META.iter().filter(|(_, m)| pp >= m.required_pp).map(|(k, _)| *k).collect()
available_items(pp) ==
    LET avail == SelectSeq(ITEM_META, LAMBDA m : U32Ge(pp, m.required_pp))
    IN  [i \in 1..Len(avail) |-> avail[i].key]


(***************************************************************************)
(* engine/core.rs                                                          *)
(***************************************************************************)
ModeOf(cfg) == IF cfg.mode = None THEN "Standard" ELSE cfg.mode
RiskOf(cfg) == IF cfg.risk = None THEN "Medium" ELSE cfg.risk

\* (profile.thief_skill as f32 / 50.0) * 15.0
SkillBonus(thief_skill) ==
    F32Mul(F32Div(F32FromInt(thief_skill), Lit.v50), Lit.v15)

\* (12.0 - (diff as f32 / 25.0)).clamp(0.0, 12.0); a difference below zero, or a
\* negative diff, meets the clamp before it is used
PartialBonus(diff) ==
    LET q == F32Div(F32FromInt(IF diff < 0 THEN -diff ELSE diff), Lit.v25)
    IN  IF diff < 0 THEN Lit.v12
        ELSE IF F32Lt(Lit.v12, q) THEN F32Zero
        ELSE F32Clamp(F32Sub(Lit.v12, q), F32Zero, Lit.v12)

\* the match on mg with the arms of Fail and NotPlayed exchanged
MinigameAdjustSwapped(chance, mg) ==
    CASE mg.tag = "Success" -> F32Add(chance, Lit.v18)
      [] mg.tag = "Partial" -> F32Add(chance, PartialBonus(mg.diff))
      [] mg.tag = "Fail" -> F32Sub(chance, Lit.v10)
      [] mg.tag = "NotPlayed" -> F32Sub(chance, Lit.v22)

\* the match on mg
MinigameAdjust(chance, mg) ==
    CASE mg.tag = "Success" -> F32Add(chance, Lit.v18)
      [] mg.tag = "Partial" -> F32Add(chance, PartialBonus(mg.diff))
      [] mg.tag = "Fail" -> F32Sub(chance, Lit.v22)
      [] mg.tag = "NotPlayed" -> F32Sub(chance, Lit.v10)

\* the chance with the match on mg left out
ChanceWithoutMinigame(profile, cfg, mg) ==
    LET effects == aggregate(cfg.items)
        c0 == base_chance(ModeOf(cfg), RiskOf(cfg))
        c1 == F32Add(c0, SkillBonus(profile.thief_skill))
        c2 == F32Add(c1, effects.success_pp_bonus)
    IN  F32Clamp(c2, F32One, Lit.v99)

\* the success chance resolve_solo compares the roll with
Chance(profile, cfg, mg) ==
    LET effects == aggregate(cfg.items)
        c0 == base_chance(ModeOf(cfg), RiskOf(cfg))
        c1 == F32Add(c0, SkillBonus(profile.thief_skill))
        c2 == F32Add(c1, effects.success_pp_bonus)
    IN  F32Clamp(MinigameAdjust(c2, mg), F32One, Lit.v99)

\* the heat cost without .round(): the product cut by `as i64`
HeatCostTruncated(risk, effects) ==
    F32Trunc(F32Mul(F32FromInt(heat_gain(risk)), effects.heat_mult))

\* heat = ((heat_gain(risk) as f32) * effects.heat_mult).round() as i64
HeatCost(risk, effects) == F32RoundInt(F32Mul(F32FromInt(heat_gain(risk)), effects.heat_mult))

\* penalty = ((reward as f32) * 0.35 * effects.fail_penalty_mult) as i64
Penalty(reward, effects) ==
    F32Trunc(F32Mul(F32Mul(F32FromInt(reward), Lit.v0_35), effects.fail_penalty_mult))

\* the skill step with <= for <
SkillStepInclusive(thief_skill) == IF thief_skill <= 50 THEN thief_skill + 1 ELSE thief_skill

\* if profile.thief_skill < 50 { profile.thief_skill += 1 }
SkillStep(thief_skill) == IF thief_skill < 50 THEN thief_skill + 1 ELSE thief_skill

\* the pp step with wrapping_add for saturating_add
PpStepWrapping(pp, success) ==
    IF ~success THEN pp
    ELSE IF pp = U32Max THEN U32(0)
    ELSE [k |-> pp.k, o |-> pp.o + 1]

\* if success { profile.pp = profile.pp.saturating_add(1) }
PpStep(pp, success) == IF success THEN U32SaturatingInc(pp) ELSE pp

\* Settle with the reward of a success reported but not added to the balance
SettleWithoutCredit(profile, risk, effects, chance, roll, reward) ==
    LET success == F32Lt(roll, chance)
        heat    == HeatCost(risk, effects)
        penalty == Penalty(reward, effects)
        amount  == IF success THEN reward ELSE -penalty
        hdelta  == IF success THEN heat ELSE heat + 2
    IN  [profile  |-> [user_id     |-> profile.user_id,
                       balance     |-> I64WrappingAdd(profile.balance,
                                                      IF success THEN 0 ELSE amount),
                       heat        |-> I64WrappingAdd(profile.heat, hdelta),
                       thief_skill |-> SkillStep(profile.thief_skill),
                       pp          |-> PpStep(profile.pp, success)],
         outcome  |-> [success |-> success, amount_base |-> amount,
                       amount_final |-> amount, heat_delta |-> hdelta],
         chance   |-> chance,
         overflow |-> I64Overflows(profile.balance, IF success THEN 0 ELSE amount)
                         \/ I64Overflows(profile.heat, hdelta)]

\* resolve_solo from the roll on (core.rs 44-78): chance and effects are what
\* lines 14-40 computed, roll is the f32 drawn from [0,100), reward the integer
\* drawn from reward_range.  overflow tells that one of the two i64 additions
\* left the range; profile then holds the wrapped sum.
Settle(profile, risk, effects, chance, roll, reward) ==
    LET success == F32Lt(roll, chance)
        heat    == HeatCost(risk, effects)
        penalty == Penalty(reward, effects)
        amount  == IF success THEN reward ELSE -penalty
        hdelta  == IF success THEN heat ELSE heat + 2
    IN  [profile  |-> [user_id     |-> profile.user_id,
                       balance     |-> I64WrappingAdd(profile.balance, amount),
                       heat        |-> I64WrappingAdd(profile.heat, hdelta),
                       thief_skill |-> SkillStep(profile.thief_skill),
                       pp          |-> PpStep(profile.pp, success)],
         outcome  |-> [success |-> success, amount_base |-> amount,
                       amount_final |-> amount, heat_delta |-> hdelta],
         chance   |-> chance,
         overflow |-> I64Overflows(profile.balance, amount)
                         \/ I64Overflows(profile.heat, hdelta)]

\* resolve_solo with its two random draws made explicit
resolve_solo(profile, cfg, mg, roll, reward) ==
    Settle(profile, RiskOf(cfg), aggregate(cfg.items), Chance(profile, cfg, mg), roll, reward)

\* the rewards random_range(min_r..=max_r) is let to draw
RewardDraws(cfg) ==
    LET rr == reward_range(ModeOf(cfg), RiskOf(cfg))
    IN  {rr[1], rr[1] + 2, rr[2]}


(***************************************************************************)
(* engine/repo.rs: MemorySoloRepo, a DashMap<u64, PlayerProfile>.  Each    *)
(* DashMap call (get, insert) is atomic; a trait method that makes two of  *)
(* them is two steps, and other threads run in between.                    *)
(***************************************************************************)
\* Option::None of a profile
Absent == [absent |-> TRUE]

\* PlayerProfile::default() with user_id set (get_or_create's fresh profile)
FreshProfile(user_id) == [DefaultProfile EXCEPT !.user_id = user_id]

(***************************************************************************)
(* engine/minigames.rs                                                     *)
(***************************************************************************)
\* i32 arithmetic.  Each operation gives the value with wrapping (what a build
\* without overflow checks computes) and whether the exact result left the
\* type (where a build with overflow checks panics).  No intermediate value
\* leaves the i32 range.
I32Max == 2147483647
I32Min == -I32Max - 1

I32Add(a, b) ==
    IF b > 0 /\ a > I32Max - b
    THEN [overflow |-> TRUE, value |-> (a + I32Min) + (b + I32Min)]
    ELSE IF b < 0 /\ a < I32Min - b
    THEN [overflow |-> TRUE, value |-> (a - I32Min) + (b - I32Min)]
    ELSE [overflow |-> FALSE, value |-> a + b]

\* a - b for b >= 0 (the subtrahend of score_qte is the target, 1200)
I32Sub(a, b) ==
    IF a < I32Min + b
    THEN [overflow |-> TRUE, value |-> (a - I32Min) + (I32Max - b) + 1]
    ELSE [overflow |-> FALSE, value |-> a - b]

\* i32::abs: the absolute value of i32::MIN is not an i32
I32Abs(a) ==
    IF a = I32Min THEN [overflow |-> TRUE, value |-> I32Min]
    ELSE [overflow |-> FALSE, value |-> IF a < 0 THEN -a ELSE a]

\* a * 2 for a >= 0
I32Double(a) ==
    IF a > I32Max \div 2
    THEN [overflow |-> TRUE, value |-> (a + I32Min) + (a + I32Min)]
    ELSE [overflow |-> FALSE, value |-> 2 * a]

qte_spec_for(risk, window_bonus_ms) ==
    LET base_window == CASE risk = "Low" -> 220
                         [] risk = "Medium" -> 150
                         [] risk = "High" -> 100
                         [] risk = "Hardcore" -> 70
        sum == I32Add(base_window, window_bonus_ms)
    IN  [overflow |-> sum.overflow,
         value |-> [target_ms |-> 1200,
                    window_ms |-> IF sum.value < 40 THEN 40 ELSE sum.value]]

\* the doubled window is computed only when the first comparison fails
score_qte(elapsed_ms, spec) ==
    LET sub == I32Sub(elapsed_ms, spec.target_ms)
        abs == I32Abs(sub.value)
        diff == abs.value
        twice == I32Double(spec.window_ms)
    IN  IF diff <= spec.window_ms
        THEN [overflow |-> sub.overflow \/ abs.overflow, value |-> MgSuccess]
        ELSE [overflow |-> sub.overflow \/ abs.overflow \/ twice.overflow,
              value |-> IF diff <= twice.value THEN Partial(diff) ELSE MgFail]

\* simon_spec_for with the clamp starting at 2
SimonSpecForFloor2(risk, len_delta) ==
    LET base_len == CASE risk = "Low" -> 4
                      [] risk = "Medium" -> 5
                      [] risk = "High" -> 6
                      [] risk = "Hardcore" -> 7
        sum == I32Add(base_len, len_delta)
    IN  [overflow |-> sum.overflow,
         value |-> [length |-> IntClamp(sum.value, 2, 8), alphabet |-> <<"A", "B", "C", "D">>]]

simon_spec_for(risk, len_delta) ==
    LET base_len == CASE risk = "Low" -> 4
                      [] risk = "Medium" -> 5
                      [] risk = "High" -> 6
                      [] risk = "Hardcore" -> 7
        sum == I32Add(base_len, len_delta)
    IN  [overflow |-> sum.overflow,
         value |-> [length |-> IntClamp(sum.value, 3, 8), alphabet |-> <<"A", "B", "C", "D">>]]

\* gen_simon_seq: spec.length draws from the alphabet, any sequence can come up
gen_simon_seq(spec) ==
    [1..spec.length -> {spec.alphabet[i] : i \in 1..Len(spec.alphabet)}]

\* char::to_ascii_uppercase (used by the caller of check_simon_step): a to z go to A to Z, every other char stays
LowerCase == <<"a", "b", "c", "d", "e", "f", "g", "h", "i", "j", "k", "l", "m",
               "n", "o", "p", "q", "r", "s", "t", "u", "v", "w", "x", "y", "z">>
UpperCase == <<"A", "B", "C", "D", "E", "F", "G", "H", "I", "J", "K", "L", "M",
               "N", "O", "P", "Q", "R", "S", "T", "U", "V", "W", "X", "Y", "Z">>
ToAsciiUppercase(c) ==
    IF \E i \in 1..Len(LowerCase) : LowerCase[i] = c
    THEN UpperCase[CHOOSE i \in 1..Len(LowerCase) : LowerCase[i] = c]
    ELSE c

\* a comparison that folds case first
CheckSimonStepFoldingCase(expected, got) == ToAsciiUppercase(expected) = ToAsciiUppercase(got)

check_simon_step(expected, got) == expected = got

(***************************************************************************)
(* Bounds and input sets                                                   *)
(***************************************************************************)
MaxItems == 3
MaxCalls == 3
MaxResolves == 2
MaxInflight == 1
NumThreads == 2
NumUsers == 2

Threads == 1..NumThreads
UserIds == 1..NumUsers

Cfg(mode, risk, items) == [mode |-> mode, risk |-> risk, minigame |-> "Simon", items |-> items]

MinigameResults == {NotPlayed, MgSuccess, MgFail, Partial(0), Partial(151), Partial(301)}

Profile(skill, balance, heat, pp) ==
    [user_id |-> 1, balance |-> balance, heat |-> heat, thief_skill |-> skill, pp |-> pp]

\* rolls drawn from [0,100)
Rolls == {0, 50, 85, 90}
SeqRolls == {0, 99}

(***************************************************************************)
(* State                                                                   *)
(***************************************************************************)
VARIABLES
    profile,    \* the profile the caller of resolve_solo holds
    cfg,        \* the SoloHeistConfig it passes
    mg,         \* the MinigameResult it passes
    last,       \* the last call of resolve_solo: inputs, draws and result
    start,      \* the profile before the first call
    calls,      \* number of calls made
    users,      \* MemorySoloRepo.users: user id -> PlayerProfile or Absent
    pc,         \* per thread: where it stands in a repo method
    lastSaved,  \* per user id, the argument of the last completed save
    ret,        \* the last return of get_or_create
    call,       \* the last call of one of the engine's other functions
    session,    \* SoloSession.state and base_cfg of one player's panel
    db,         \* the Postgres tables users, profiles and crime_settings, by user id
    inflight,   \* Handler.inflight: the (user id, command name) keys present
    task,       \* per task serving a slash command: where it stands
    tx          \* per task running /pay: its transaction

vars == <<profile, cfg, mg, last, start, calls, users, pc, lastSaved, ret, call, session,
          db, inflight, task, tx>>
engineVars == <<profile, cfg, mg, last, start, calls>>
repoVars == <<users, pc, lastSaved, ret>>
botVars == <<inflight, task, tx>>

NoOutcome == [success |-> FALSE, amount_base |-> 0, amount_final |-> 0, heat_delta |-> 0]
NoCall(p) ==
    [status |-> "none", before |-> p, roll |-> 0, reward |-> 0, chance |-> F32Zero,
     outcome |-> NoOutcome]

Idle == [at |-> "idle", user_id |-> 0]

RepoInit ==
    /\ users = [u \in UserIds |-> Absent]
    /\ pc = [t \in Threads |-> Idle]
    /\ lastSaved = [u \in UserIds |-> Absent]
    /\ ret = [user_id |-> 0, value |-> Absent, hit |-> FALSE, saved |-> Absent]

\* no function called yet, and the panel still in SoloState::Config
NoPrev == [fn |-> "none", args |-> <<>>, result |-> 0]
NoFn == [fn |-> "none", args |-> <<>>, status |-> "none", result |-> 0, prev |-> NoPrev]
DefaultCfg == [mode |-> None, risk |-> None, minigame |-> "Qte", items |-> <<>>]
InConfig == [state |-> "Config", cfg |-> DefaultCfg, base_cfg |-> DefaultCfg]
FnIdle == call = NoFn /\ session = InConfig

\* no row in any table, no command in flight, no transaction open
ServiceIdle ==
    /\ db = [balance |-> [u \in UserIds |-> Absent], profile |-> [u \in UserIds |-> Absent],
             settings |-> [u \in UserIds |-> Absent]]
    /\ inflight = {}
    /\ task = [t \in Threads |-> [at |-> "idle"]]
    /\ tx = [t \in Threads |-> [at |-> "idle", locks |-> {}]]

EngineInit(profiles, cfgs, mgs) ==
    /\ profile \in profiles
    /\ cfg \in cfgs
    /\ mg \in mgs
    /\ last = NoCall(profile)
    /\ start = profile
    /\ calls = 0

(***************************************************************************)
(* resolve_solo as a step                                                  *)
(***************************************************************************)
\* The call returns.  Where an i64 addition overflows, this is the build
\* without overflow checks, which wraps.
Returns(rolls, limit) ==
    /\ calls < limit
    /\ \E effects \in {aggregate(cfg.items)}, chance \in {Chance(profile, cfg, mg)} :
           \E roll \in rolls, reward \in RewardDraws(cfg) :
             LET r == Settle(profile, RiskOf(cfg), effects, chance, F32FromInt(roll), reward)
             IN  /\ profile' = r.profile
                 /\ last' = [status |-> "returned", before |-> profile, roll |-> roll,
                             reward |-> reward, chance |-> r.chance, outcome |-> r.outcome]
    /\ calls' = calls + 1
    /\ UNCHANGED <<cfg, mg, start>>
    /\ UNCHANGED <<repoVars, call, session, db, botVars>>

\* The call panics: `attempt to add with overflow` in a build with overflow
\* checks (the debug profile).  Nothing is returned.
Panics(rolls, limit) ==
    /\ calls < limit
    /\ profile.balance.k # 0 \/ profile.heat.k # 0
    /\ \E effects \in {aggregate(cfg.items)}, chance \in {Chance(profile, cfg, mg)} :
           \E roll \in rolls, reward \in RewardDraws(cfg) :
             LET r == Settle(profile, RiskOf(cfg), effects, chance, F32FromInt(roll), reward)
             IN  /\ r.overflow
                 /\ last' = [status |-> "panicked", before |-> profile, roll |-> roll,
                             reward |-> reward, chance |-> r.chance, outcome |-> NoOutcome]
    /\ calls' = calls + 1
    /\ UNCHANGED <<profile, cfg, mg, start>>
    /\ UNCHANGED <<repoVars, call, session, db, botVars>>

\* one call on inputs drawn at the start
ResolveSolo == Returns(Rolls, 1)
ResolveSoloPanic == Panics(Rolls, 1)

\* profiles: the documented skill range, a skill above it, and balance, heat
\* and pp at the ends of their types; loadouts: every list of at most MaxItems
\* of two keys, repeats included
Init ==
    /\ EngineInit({Profile(50, I64(1000), I64(0), U32(0)),
                   Profile(5, I64(0), I64(0), U32(0)),
                   Profile(0, I64Max, I64(90), U32Max),
                   Profile(33, I64(-300), I64(12), U32(29)),
                   Profile(200, I64Min, I64Max, U32(7))},
                  {Cfg(m, r, i) : m \in CrimeMode \cup {None}, r \in Risk \cup {None},
                                  i \in UNION {[1..n -> {"Adrenaline", "LockpickSet"}] :
                                                 n \in 0..MaxItems}},
                  MinigameResults)
    /\ RepoInit /\ FnIdle /\ ServiceIdle
Next == ResolveSolo \/ ResolveSoloPanic
Spec == Init /\ [][Next]_vars

\* a player's successive calls, each fed the profile the one before returned
ResolveSoloAgain == Returns(SeqRolls, MaxCalls)
ResolveSoloAgainPanic == Panics(SeqRolls, MaxCalls)

\* profiles: skill around its cap, pp around its top and one below a
\* threshold of the item catalog
InitSeq ==
    /\ EngineInit({Profile(sk, I64(1000), I64(0), pp) :
                      sk \in {0, 48, 49, 50, 77},
                      pp \in {U32(0), [k |-> 1, o |-> -3], [k |-> 1, o |-> -2], U32Max}}
                  \cup {Profile(50, I64Max, I64(0), U32(4))}
                  \cup {Profile(50, I64(1000), I64(0), U32(pp)) : pp \in {4, 21, 29}},
                  {Cfg("Standard", "Medium", <<>>), Cfg(None, None, <<"Adrenaline">>),
                   Cfg("Szalony", "Hardcore", <<"ProGloves", "LockpickSet">>)},
                  {MgSuccess, MgFail, Partial(-40)})
    /\ RepoInit /\ FnIdle /\ ServiceIdle
NextSeq == ResolveSoloAgain \/ ResolveSoloAgainPanic
SpecSeq == InitSeq /\ [][NextSeq]_vars


\* single calls over every skill of the documented range 0..50, skills above
\* it up to the largest the checker's integers hold, and one profile at the
\* ends of the i64 and u32 ranges
InitSkill ==
    /\ EngineInit({Profile(sk, I64(1000), I64(0), U32(0)) :
                      sk \in (0..50) \cup {51, 122, 183, 184, 200, 1000, 2147483647}}
                  \cup {Profile(25, I64Min, I64Max, U32Max)},
                  {Cfg(m, r, <<>>) : m \in CrimeMode \cup {None}, r \in Risk \cup {None}}
                  \cup {Cfg("Standard", "Medium", <<"Toolkit", "Adrenaline", "HackerLaptop">>)},
                  MinigameResults \cup {Partial(0), Partial(300), Partial(-40)})
    /\ RepoInit /\ FnIdle /\ ServiceIdle
SpecSkill == InitSkill /\ [][Next]_vars

(***************************************************************************)
(* MemorySoloRepo's methods as steps of threads                            *)
(***************************************************************************)
EngineIdle ==
    EngineInit({DefaultProfile}, {Cfg(None, None, <<>>)}, {NotPlayed})

\* get_or_create, `if let Some(v) = self.users.get(&user_id) { return v.clone(); }`
\* with the entry present: the method returns in this one step
GetOrCreateHit(t, u) ==
    /\ pc[t].at = "idle"
    /\ users[u] # Absent
    /\ ret' = [user_id |-> u, value |-> users[u], hit |-> TRUE, saved |-> lastSaved[u]]
    /\ UNCHANGED <<users, pc, lastSaved>>
    /\ UNCHANGED <<engineVars, call, session, db, botVars>>

\* get_or_create, the same get with no entry: the guard is dropped and the
\* method goes on to build the default profile
GetOrCreateMiss(t, u) ==
    /\ pc[t].at = "idle"
    /\ users[u] = Absent
    /\ pc' = [pc EXCEPT ![t] = [at |-> "insert", user_id |-> u]]
    /\ UNCHANGED <<users, lastSaved, ret>>
    /\ UNCHANGED <<engineVars, call, session, db, botVars>>

\* get_or_create, `self.users.insert(user_id, p.clone()); p`
GetOrCreateInsert(t) ==
    /\ pc[t].at = "insert"
    /\ users' = [users EXCEPT ![pc[t].user_id] = FreshProfile(pc[t].user_id)]
    /\ ret' = [user_id |-> pc[t].user_id, value |-> FreshProfile(pc[t].user_id),
               hit |-> FALSE, saved |-> lastSaved[pc[t].user_id]]
    /\ pc' = [pc EXCEPT ![t] = Idle]
    /\ UNCHANGED lastSaved
    /\ UNCHANGED <<engineVars, call, session, db, botVars>>

\* save: `self.users.insert(profile.user_id, profile.clone())`
Save(t, p) ==
    /\ pc[t].at = "idle"
    /\ users' = [users EXCEPT ![p.user_id] = p]
    /\ lastSaved' = [lastSaved EXCEPT ![p.user_id] = p]
    /\ UNCHANGED <<pc, ret>>
    /\ UNCHANGED <<engineVars, call, session, db, botVars>>

InitRepo == EngineIdle /\ RepoInit /\ FnIdle /\ ServiceIdle
NextRepo ==
    \E t \in Threads :
        \/ \E u \in UserIds : GetOrCreateHit(t, u)
        \/ \E u \in UserIds : GetOrCreateMiss(t, u)
        \/ GetOrCreateInsert(t)
        \* profiles the callers of save pass: a fresh profile after one or two heists
        \/ \E p \in {[user_id |-> u, balance |-> I64(0), heat |-> I64(7 * n),
                      thief_skill |-> 5 + n, pp |-> U32(n)] : u \in UserIds, n \in 1..2} :
              Save(t, p)
SpecRepo == InitRepo /\ [][NextRepo]_vars

(***************************************************************************)
(* The engine's other public functions, each call a step                   *)
(***************************************************************************)
\* fn(args) returns result; prev is the call before it where a caller compares
Called(fn, args, result, prev) ==
    /\ call' = [fn |-> fn, args |-> args, status |-> "returned", result |-> result,
                prev |-> prev]
    /\ UNCHANGED <<session, engineVars, repoVars, db, botVars>>

\* a caller walking the tiers of a mode: the call before is kept when it was
\* a base_chance call too
BaseChance(mode, risk) ==
    Called("base_chance", <<mode, risk>>, base_chance(mode, risk),
           IF call.fn = "base_chance"
           THEN [fn |-> call.fn, args |-> call.args, result |-> call.result]
           ELSE NoPrev)

HeatEffectsCall(mode, risk, heat) ==
    Called("heat_effects", <<mode, risk, heat>>, heat_effects(mode, risk, heat), NoPrev)

\* a call about to be made on arguments drawn at the start
Pending(fn, args) ==
    [fn |-> fn, args |-> args, status |-> "pending", result |-> 0, prev |-> NoPrev]

Aggregate ==
    /\ call.fn = "aggregate" /\ call.status = "pending"
    /\ Called("aggregate", call.args, aggregate(call.args[1]), NoPrev)

InitItems ==
    /\ EngineIdle /\ RepoInit /\ session = InConfig /\ ServiceIdle
    \* every list of at most MaxItems keys, repeats included, and every list
    \* without a repeat (at most one entry per key of ItemKey)
    /\ call \in {Pending("aggregate", <<items>>) :
                   items \in UNION {[1..n -> ItemKey] : n \in 0..MaxItems}
                       \cup {l \in UNION {[1..n -> ItemKey] : n \in 0..Cardinality(ItemKey)} :
                                \A i, j \in 1..Len(l) : l[i] = l[j] => i = j}}
SpecItems == InitItems /\ [][Aggregate]_vars

\* a pending call returns; where an i32 operation overflows this is the build
\* without overflow checks, which goes on with the wrapped value
FnReturns(fn, r) ==
    /\ call.fn = fn /\ call.status = "pending"
    /\ Called(fn, call.args, r.value, NoPrev)

\* a pending call panics (`attempt to add with overflow` and the like) in a
\* build with overflow checks, the debug profile; nothing is returned
FnPanics(fn, r) ==
    /\ call.fn = fn /\ call.status = "pending"
    /\ r.overflow
    /\ call' = [call EXCEPT !.status = "panicked"]
    /\ UNCHANGED <<session, engineVars, repoVars, db, botVars>>

SimonSpecFor == FnReturns("simon_spec_for", simon_spec_for(call.args[1], call.args[2]))
SimonSpecForPanics == FnPanics("simon_spec_for", simon_spec_for(call.args[1], call.args[2]))

QteSpecFor == FnReturns("qte_spec_for", qte_spec_for(call.args[1], call.args[2]))
QteSpecForPanics == FnPanics("qte_spec_for", qte_spec_for(call.args[1], call.args[2]))

\* score_qte is applied to a spec that qte_spec_for has just returned
ScoreQteStart(elapsed_ms) ==
    /\ call.fn = "qte_spec_for" /\ call.status = "returned"
    /\ call' = Pending("score_qte", <<elapsed_ms, call.result>>)
    /\ UNCHANGED <<session, engineVars, repoVars, db, botVars>>

ScoreQte == FnReturns("score_qte", score_qte(call.args[1], call.args[2]))
ScoreQtePanics == FnPanics("score_qte", score_qte(call.args[1], call.args[2]))

InitMinigames ==
    /\ EngineIdle /\ RepoInit /\ session = InConfig /\ ServiceIdle
    \* length deltas: the small ones the items and heat produce, and the ends
    \* of i32; window bonuses: small ones, and those taking the window to the
    \* ends of i32
    /\ call \in {Pending("simon_spec_for", <<r, d>>) :
                   r \in Risk,
                   d \in {I32Min, I32Min + 1} \cup (-6..6)
                          \cup {I32Max - 8, I32Max - 7, I32Max - 6, I32Max - 5,
                                I32Max - 4, I32Max - 3, I32Max - 2, I32Max - 1, I32Max}}
               \cup {Pending("qte_spec_for", <<r, b>>) :
                       r \in Risk,
                       b \in {I32Min, -1000, -181, -180, -61, -60, -30, 0, 40, 60,
                              I32Max \div 2 - 219, I32Max \div 2 - 69, I32Max - 220,
                              I32Max - 219, I32Max - 70, I32Max - 69, I32Max}}
NextMinigames ==
    \/ SimonSpecFor
    \/ SimonSpecForPanics
    \/ QteSpecFor
    \/ QteSpecForPanics
    \* elapsed times around the window edges of the tiers and at the ends of i32
    \/ \E elapsed_ms \in
            {I32Min, I32Min + 1199, I32Min + 1200, I32Min + 1201, -1, 0, 759, 760, 979,
             980, 1000, 1049, 1050, 1100, 1129, 1130, 1200, 1270, 1271, 1300, 1350,
             1351, 1420, 1421, 1640, 1641, I32Max \div 2 + 1201, I32Max \div 2 + 1202,
             I32Max} :
          ScoreQteStart(elapsed_ms)
    \/ ScoreQte
    \/ ScoreQtePanics
SpecMinigames == InitMinigames /\ [][NextMinigames]_vars

(***************************************************************************)
(* commands/crime.rs: the Simon round of a panel, handle_component          *)
(***************************************************************************)
\* Option<MinigameResult>::None of InSimon.result
NoResult == [tag |-> "None", diff |-> 0]

\* "start": Config with mode and risk set becomes InSimon with a fresh sequence
Start ==
    /\ session.state = "Config"
    /\ session.cfg.mode # None /\ session.cfg.risk # None
    /\ LET c == [session.cfg EXCEPT !.minigame = "Simon"]
           effects == aggregate(c.items)
           spec == simon_spec_for(c.risk, effects.simon_seq_delta).value
       IN  \E seq \in gen_simon_seq(spec) :
             session' = [state |-> "InSimon", base_cfg |-> c, spec |-> spec, seq |-> seq,
                         cursor |-> 0, result |-> NoResult, reveal_until |-> TRUE,
                         reveals_left |-> CASE c.risk = "Low" -> 2
                                            [] c.risk = "Medium" -> 1
                                            [] OTHER -> 0]
           \* save_settings_db(db, user.get(), &cfg)
           /\ db' = [db EXCEPT !.settings[1] =
                                  [mode |-> c.mode, risk |-> c.risk, items |-> c.items]]
    /\ UNCHANGED <<call, engineVars, repoVars, botVars>>

\* "simon_show": the sequence is shown again while reveals are left
SimonShow ==
    /\ session.state = "InSimon"
    /\ session.result = NoResult /\ session.reveals_left > 0
    /\ session' = [session EXCEPT !.reveal_until = TRUE, !.reveals_left = @ - 1]
    /\ UNCHANGED <<call, engineVars, repoVars, db, botVars>>

\* "simon_key" where a wrong key is ignored and does not set Fail
SimonKeyForgiving(k) ==
    /\ session.state = "InSimon"
    /\ LET shown == [session EXCEPT !.reveal_until = FALSE]
           got == IF Len(k) > 0 THEN ToAsciiUppercase(k[1]) ELSE "?"
       IN  IF shown.result # NoResult
           THEN session' = shown /\ UNCHANGED call
           ELSE IF shown.cursor >= Len(shown.seq)
           THEN session' = [shown EXCEPT !.result = MgSuccess] /\ UNCHANGED call
           ELSE LET expected == shown.seq[shown.cursor + 1]
                    ok == check_simon_step(expected, got)
                IN  /\ call' = [fn |-> "check_simon_step", args |-> <<expected, got>>,
                                status |-> "returned", result |-> ok,
                                prev |-> [fn |-> "simon_key", args |-> <<k>>,
                                          result |-> shown.cursor]]
                    /\ session' =
                         IF ok
                         THEN [shown EXCEPT !.cursor = @ + 1,
                                            !.result = IF shown.cursor + 1 >= Len(shown.seq)
                                                       THEN MgSuccess ELSE @]
                         ELSE shown
    /\ UNCHANGED <<engineVars, repoVars, db, botVars>>

\* "simon_key" with payload k, pressed once the reveal is over (pressed during
\* the reveal, or with no payload, the handler changes nothing)
SimonKey(k) ==
    /\ session.state = "InSimon"
    /\ LET shown == [session EXCEPT !.reveal_until = FALSE]
           got == IF Len(k) > 0 THEN ToAsciiUppercase(k[1]) ELSE "?"
       IN  IF shown.result # NoResult
           THEN session' = shown /\ UNCHANGED call
           ELSE IF shown.cursor >= Len(shown.seq)
           THEN session' = [shown EXCEPT !.result = MgSuccess] /\ UNCHANGED call
           ELSE LET expected == shown.seq[shown.cursor + 1]
                    ok == check_simon_step(expected, got)
                IN  /\ call' = [fn |-> "check_simon_step", args |-> <<expected, got>>,
                                status |-> "returned", result |-> ok,
                                prev |-> [fn |-> "simon_key", args |-> <<k>>,
                                          result |-> shown.cursor]]
                    /\ session' =
                         IF ok
                         THEN [shown EXCEPT !.cursor = @ + 1,
                                            !.result = IF shown.cursor + 1 >= Len(shown.seq)
                                                       THEN MgSuccess ELSE @]
                         ELSE [shown EXCEPT !.result = MgFail]
    /\ UNCHANGED <<engineVars, repoVars, db, botVars>>

\* check_simon_step called on its own
CheckSimonStep ==
    FnReturns("check_simon_step",
              [overflow |-> FALSE, value |-> check_simon_step(call.args[1], call.args[2])])

\* either a panel configured and about to start, or a call of check_simon_step
InitSimon ==
    /\ EngineIdle /\ RepoInit /\ ServiceIdle
    /\ \/ /\ call = NoFn
          \* configs left in the panel by the mode, risk and item buttons
          /\ session \in
                {[state |-> "Config", cfg |-> c, base_cfg |-> DefaultCfg] :
                   c \in {[mode |-> "Standard", risk |-> "Low", minigame |-> "Qte",
                           items |-> <<"ProGloves", "LockpickSet">>],
                          [mode |-> "Szalony", risk |-> "Medium", minigame |-> "Qte",
                           items |-> <<"LockpickSet", "ProGloves">>]}}
       \/ /\ session = InConfig
          /\ call \in {Pending("check_simon_step", <<e, g>>) :
                          e \in {"A", "B", "C", "D", "a"},
                          g \in {"A", "a", "B", "b", "C", "D", "d", "?"}}
NextSimon ==
    \/ Start
    \/ SimonShow
    \* payloads of crime:solo:simon_key:{payload}, each a string as its chars
    \/ \E k \in {<<>>, <<"A">>, <<"a">>, <<"B">>, <<"b">>, <<"C">>, <<"c">>, <<"D">>,
                 <<"d">>, <<"e">>, <<"?">>, <<"a", "B">>} :
          SimonKey(k)
    \/ CheckSimonStep
SpecSimon == InitSimon /\ [][NextSimon]_vars

InitBalance == EngineIdle /\ RepoInit /\ FnIdle /\ ServiceIdle
NextBalance ==
    \/ \E mode \in CrimeMode, risk \in Risk : BaseChance(mode, risk)
    \* heat around every band edge of base_heat_effects, and large
    \/ \E mode \in CrimeMode, risk \in Risk,
          heat \in {0, 24, 25, 49, 50, 74, 75, 89, 90, 95, 100, 101, I32Max} :
            HeatEffectsCall(mode, risk, heat)
SpecBalance == InitBalance /\ [][NextBalance]_vars

(***************************************************************************)
(* commands/crime.rs: the whole panel of player 1.  handle_component holds *)
(* the player's session entry for the length of a handler, so handlers are *)
(* steps; start_solo takes the entry twice, so it is two steps.  The       *)
(* database answers every query (no connection errors).  A settings row    *)
(* holds the mode, risk and items themselves: mode_to_str, risk_to_str and *)
(* key_item write the very keys from_key_mode, from_key_risk and           *)
(* from_key_item read back.  Of the variables that log calls, a handler    *)
(* writes call and the count calls; last, ret and lastSaved log the calls  *)
(* of the specifications above only.                                       *)
(***************************************************************************)
from_key_mode(k) ==
    CASE k = "standard" -> "Standard"
      [] k = "szybki" -> "Szybki"
      [] k = "ostrozny" -> "Ostrozny"
      [] k = "shadow" -> "Shadow"
      [] k = "hardcore" -> "Hardcore"
      [] k = "ryzykowny" -> "Ryzykowny"
      [] k = "planowany" -> "Planowany"
      [] k = "szalony" -> "Szalony"
      [] OTHER -> "Standard"

from_key_risk(k) ==
    CASE k = "low" -> "Low"
      [] k = "medium" -> "Medium"
      [] k = "high" -> "High"
      [] k = "hardcore" -> "Hardcore"
      [] OTHER -> "Medium"

from_key_item(k) ==
    CASE k = "laptop" -> "HackerLaptop"
      [] k = "gloves" -> "ProGloves"
      [] k = "toolkit" -> "Toolkit"
      [] k = "adrenaline" -> "Adrenaline"
      [] k = "smoke" -> "SmokeGrenade"
      [] k = "lockpick" -> "LockpickSet"
      [] OTHER -> None

\* extract_cfg that forgets the snapshot taken at the start of the round
ExtractCfgWithoutSnapshot(s) == IF s.state = "Config" THEN s.cfg ELSE DefaultCfg

extract_cfg(s) == IF s.state = "Config" THEN s.cfg ELSE s.base_cfg

\* fetch_balance: ensure_row_users inserts balance 0 where no row is, then the
\* balance is read
fetch_balance(d) ==
    LET bal == IF d.balance[1] = Absent THEN 0 ELSE d.balance[1].balance
    IN  [db |-> [d EXCEPT !.balance[1] = [balance |-> bal]], value |-> bal]

\* load_profile_db: ensure_row_profiles inserts (0, 0, 0) where no row is, then
\* the row is read: heat as i64, pp and thief_skill as u32, balance 0
load_profile_db(d) ==
    LET row == IF d.profile[1] = Absent THEN [heat |-> 0, pp |-> 0, thief_skill |-> 0]
               ELSE d.profile[1]
    IN  [db |-> [d EXCEPT !.profile[1] = row],
         value |-> [user_id |-> 1, balance |-> I64(0), heat |-> I64(row.heat),
                    thief_skill |-> row.thief_skill,
                    pp |-> IF row.pp < 0 THEN [k |-> 1, o |-> row.pp] ELSE U32(row.pp)]]

\* "mode" with payload k
ModeButton(k) ==
    /\ call' = [fn |-> "mode", args |-> <<k>>, status |-> "returned", result |-> 0,
                prev |-> NoPrev]
    /\ IF session.state = "Config"
       THEN \E c \in {[session.cfg EXCEPT !.mode = from_key_mode(k)]} :
              /\ session' = [session EXCEPT !.cfg = c]
              /\ db' = [db EXCEPT !.settings[1] =
                                     [mode |-> c.mode, risk |-> c.risk, items |-> c.items]]
       ELSE UNCHANGED <<session, db>>
    /\ UNCHANGED <<engineVars, repoVars, botVars>>

\* "risk" with payload k
RiskButton(k) ==
    /\ call' = [fn |-> "risk", args |-> <<k>>, status |-> "returned", result |-> 0,
                prev |-> NoPrev]
    /\ IF session.state = "Config"
       THEN \E c \in {[session.cfg EXCEPT !.risk = from_key_risk(k)]} :
              /\ session' = [session EXCEPT !.cfg = c]
              /\ db' = [db EXCEPT !.settings[1] =
                                     [mode |-> c.mode, risk |-> c.risk, items |-> c.items]]
       ELSE UNCHANGED <<session, db>>
    /\ UNCHANGED <<engineVars, repoVars, botVars>>

\* "itemselect" with the values of the select menu: the first three that name
\* an item available at the pp of the stored profile
ItemSelect(values) ==
    /\ call' = [fn |-> "itemselect", args |-> <<values>>, status |-> "returned",
                result |-> 0, prev |-> NoPrev]
    /\ IF session.state = "Config"
       THEN LET stored == IF users[1] = Absent THEN FreshProfile(1) ELSE users[1]
                avail  == available_items(stored.pp)
                ok     == SelectSeq(values, LAMBDA v :
                              \E i \in 1..Len(avail) : avail[i] = from_key_item(v))
                picked == [i \in 1..(IF Len(ok) < 3 THEN Len(ok) ELSE 3) |->
                              from_key_item(ok[i])]
                c      == [session.cfg EXCEPT !.items = picked]
            IN  /\ users' = [users EXCEPT ![1] = stored]
                /\ session' = [session EXCEPT !.cfg = c]
                /\ db' = [db EXCEPT !.settings[1] =
                                       [mode |-> c.mode, risk |-> c.risk, items |-> c.items]]
       ELSE UNCHANGED <<session, db, users>>
    /\ UNCHANGED <<engineVars, pc, lastSaved, ret, botVars>>

\* "item" with payload k, the legacy toggle
ItemToggle(k) ==
    /\ call' = [fn |-> "item", args |-> <<k>>, status |-> "returned", result |-> 0,
                prev |-> NoPrev]
    /\ IF session.state = "Config" /\ from_key_item(k) # None
       THEN LET item  == from_key_item(k)
                items == session.cfg.items
                c == [session.cfg EXCEPT !.items =
                        IF \E i \in 1..Len(items) : items[i] = item
                        THEN LET pos == CHOOSE i \in 1..Len(items) :
                                           /\ items[i] = item
                                           /\ \A j \in 1..(i - 1) : items[j] # item
                             IN  [i \in 1..(Len(items) - 1) |->
                                     IF i < pos THEN items[i] ELSE items[i + 1]]
                        ELSE IF Len(items) < 3 THEN Append(items, item)
                        ELSE items]
            IN  /\ session' = [session EXCEPT !.cfg = c]
                /\ db' = [db EXCEPT !.settings[1] =
                                       [mode |-> c.mode, risk |-> c.risk, items |-> c.items]]
       ELSE UNCHANGED <<session, db>>
    /\ UNCHANGED <<engineVars, repoVars, botVars>>

\* "simon_reveal": refused while a reveal may still be running or none is
\* left, else one reveal is spent
SimonReveal ==
    /\ call' = [fn |-> "simon_reveal", args |-> <<>>, status |-> "returned", result |-> 0,
                prev |-> NoPrev]
    /\ \/ /\ session.state = "InSimon" => (session.reveal_until \/ session.reveals_left = 0)
          /\ UNCHANGED session
       \/ /\ session.state = "InSimon" /\ session.reveals_left > 0
          /\ session' = [session EXCEPT !.reveal_until = TRUE, !.reveals_left = @ - 1]
    /\ UNCHANGED <<engineVars, repoVars, db, botVars>>

\* "resolve": resolve_solo on the stored profile with extract_cfg's config, the
\* amount added to users.balance, the profile saved to the table and the store
Resolve ==
    /\ calls < MaxResolves
    /\ call' = [fn |-> "resolve", args |-> <<>>, status |-> "returned", result |-> 0,
                prev |-> NoPrev]
    /\ \E c \in {extract_cfg(session)},
          mg_res \in {CASE session.state = "InSimon" ->
                             IF session.result = NoResult THEN NotPlayed ELSE session.result
                        [] session.state = "Config" -> NotPlayed
                        [] session.state = "Resolved" -> session.view.mg},
          before_mem \in {IF users[1] = Absent THEN FreshProfile(1) ELSE users[1]},
          db_before \in {fetch_balance(db)} :
         \E roll \in SeqRolls, reward \in {reward_range(ModeOf(c), RiskOf(c))[1]} :
           \E r \in {resolve_solo(before_mem, c, mg_res, F32FromInt(roll), reward)} :
             \E db_after \in {db_before.value + r.outcome.amount_final} :
               \E after \in {[r.profile EXCEPT !.balance = I64(db_after)]} :
                 /\ ~r.overflow
                 /\ db' = [db_before.db EXCEPT
                              !.balance[1] = [balance |-> db_after],
                              !.profile[1] = [heat |-> after.heat.o, pp |-> after.pp.o,
                                              thief_skill |-> after.thief_skill]]
                 /\ users' = [users EXCEPT ![1] = after]
                 \* of the ResolvedView, what a later handler reads and the outcome
                 /\ session' = [state |-> "Resolved", base_cfg |-> session.base_cfg,
                                view |-> [outcome |-> r.outcome, cfg |-> c, mg |-> mg_res]]
    /\ calls' = calls + 1
    /\ UNCHANGED <<profile, cfg, mg, last, start, pc, lastSaved, ret, botVars>>

\* "reset": back to a default Config from Config or Resolved, refused in a round
Reset ==
    /\ call' = [fn |-> "reset", args |-> <<>>, status |-> "returned", result |-> 0,
                prev |-> NoPrev]
    /\ session' = IF session.state \in {"Config", "Resolved"} THEN InConfig ELSE session
    /\ UNCHANGED <<engineVars, repoVars, db, botVars>>

\* /crime start, start_solo up to the new session: the profile row and the
\* balance are loaded into the store, and the session is replaced
StartSolo ==
    /\ pc[1].at = "idle"
    /\ call' = [fn |-> "start_solo", args |-> <<>>, status |-> "called", result |-> 0,
                prev |-> NoPrev]
    /\ \E loaded \in {load_profile_db(db)} :
         \E bal \in {fetch_balance(loaded.db)} :
           \E p \in {[loaded.value EXCEPT !.balance = I64(bal.value)]} :
             /\ db' = bal.db
             /\ users' = [users EXCEPT ![1] = p]
    /\ session' = InConfig
    /\ pc' = [pc EXCEPT ![1] = [at |-> "settings", user_id |-> 1]]
    /\ UNCHANGED <<engineVars, lastSaved, ret, botVars>>

\* start_solo from load_settings_db on: the saved settings go into the session
\* if it is still in Config
StartSoloSettings ==
    /\ pc[1].at = "settings"
    /\ call' = [fn |-> "start_solo", args |-> <<>>, status |-> "returned", result |-> 0,
                prev |-> NoPrev]
    /\ \E s \in {IF db.settings[1] = Absent
                 THEN [mode |-> None, risk |-> None, items |-> <<>>]
                 ELSE db.settings[1]} :
         /\ db' = [db EXCEPT !.settings[1] = s]
         /\ session' = IF session.state = "Config"
                       THEN [session EXCEPT !.cfg = [mode |-> s.mode, risk |-> s.risk,
                                                     minigame |-> "Simon",
                                                     items |-> s.items]]
                       ELSE session
    /\ pc' = [pc EXCEPT ![1] = Idle]
    /\ UNCHANGED <<engineVars, users, lastSaved, ret, botVars>>

NextPanel ==
    \/ \E k \in {"standard"} : ModeButton(k)
    \/ \E k \in {"low"} : RiskButton(k)
    \/ \E values \in {<<"lockpick", "adrenaline", "gloves">>} : ItemSelect(values)
    \/ \E k \in {"adrenaline"} : ItemToggle(k)
    \* of the sequences gen_simon_seq can draw, the one that repeats A
    \/ (Start /\ \A i \in 1..Len(session'.seq) : session'.seq[i] = "A")
    \/ SimonReveal
    \/ \E k \in {<<"A">>} : SimonKey(k)
    \/ Resolve
    \/ Reset
    \/ StartSolo
    \/ StartSoloSettings

\* the bot has just started and the player is new: no session, no row
InitPanel ==
    /\ EngineIdle /\ RepoInit /\ FnIdle
    /\ inflight = {}
    /\ task = [t \in Threads |-> [at |-> "idle"]]
    /\ tx = [t \in Threads |-> [at |-> "idle", locks |-> {}]]
    /\ db = [balance |-> [u \in UserIds |-> Absent], profile |-> [u \in UserIds |-> Absent],
             settings |-> [u \in UserIds |-> Absent]]
SpecPanel == InitPanel /\ [][NextPanel]_vars

(***************************************************************************)
(* lib.rs: Handler::interaction_create for a slash command.  Each task     *)
(* serves one invocation: the entry() call on the inflight map checks and  *)
(* inserts in one step; the InFlightGuard made after it removes the key    *)
(* when it is dropped, at the end of the command or on the early return.   *)
(* The semaphore has MaxInflight permits (MAX_INFLIGHT).                   *)
(***************************************************************************)
\* the entry is vacant, but the key is inserted without looking
AdmitUnchecked(t, key) ==
    /\ task[t].at = "idle"
    /\ inflight' = inflight \cup {key}
    /\ task' = [task EXCEPT ![t] = [at |-> "admitted", key |-> key]]
    /\ call' = [fn |-> "command", args |-> <<t, key>>, status |-> "admitted", result |-> 0,
                prev |-> NoPrev]
    /\ UNCHANGED <<session, engineVars, repoVars, db, tx>>

\* Entry::Vacant: the key is inserted and the guard made
Admit(t, key) ==
    /\ task[t].at = "idle"
    /\ key \notin inflight
    /\ inflight' = inflight \cup {key}
    /\ task' = [task EXCEPT ![t] = [at |-> "admitted", key |-> key]]
    /\ call' = [fn |-> "command", args |-> <<t, key>>, status |-> "admitted", result |-> 0,
                prev |-> NoPrev]
    /\ UNCHANGED <<session, engineVars, repoVars, db, tx>>

\* Entry::Occupied: the invocation is answered "Ta komenda juz sie wykonuje"
\* and returns
Reject(t, key) ==
    /\ task[t].at = "idle"
    /\ key \in inflight
    /\ call' = [fn |-> "command", args |-> <<t, key>>, status |-> "rejected", result |-> 0,
                prev |-> NoPrev]
    /\ UNCHANGED <<session, engineVars, repoVars, db, botVars>>

\* acquire_owned returns a permit once one is free
AcquirePermit(t) ==
    /\ task[t].at = "admitted"
    /\ Cardinality({u \in Threads : task[u].at = "running"}) < MaxInflight
    /\ task' = [task EXCEPT ![t].at = "running"]
    /\ call' = [fn |-> "command", args |-> <<t, task[t].key>>, status |-> "running",
                result |-> 0, prev |-> NoPrev]
    /\ UNCHANGED <<session, engineVars, repoVars, db, inflight, tx>>

\* acquire_owned fails, the semaphore being closed: the invocation returns and
\* the guard is dropped
SemaphoreClosed(t) ==
    /\ task[t].at = "admitted"
    /\ inflight' = inflight \ {task[t].key}
    /\ task' = [task EXCEPT ![t] = [at |-> "idle"]]
    /\ call' = [fn |-> "command", args |-> <<t, task[t].key>>, status |-> "closed",
                result |-> 0, prev |-> NoPrev]
    /\ UNCHANGED <<session, engineVars, repoVars, db, tx>>

\* the command's run returns Ok or Err, then drop(guard)
CommandEnds(t, ok) ==
    /\ task[t].at = "running"
    /\ inflight' = inflight \ {task[t].key}
    /\ task' = [task EXCEPT ![t] = [at |-> "idle"]]
    /\ call' = [fn |-> "command", args |-> <<t, task[t].key>>, status |-> "ended",
                result |-> ok, prev |-> NoPrev]
    /\ UNCHANGED <<session, engineVars, repoVars, db, tx>>

InitInflight == EngineIdle /\ RepoInit /\ FnIdle /\ ServiceIdle
NextInflight ==
    \E t \in Threads :
      \/ \E u \in UserIds, name \in {"crime", "pay"} : Admit(t, <<u, name>>)
      \/ \E u \in UserIds, name \in {"crime", "pay"} : Reject(t, <<u, name>>)
      \/ AcquirePermit(t)
      \/ SemaphoreClosed(t)
      \/ \E ok \in BOOLEAN : CommandEnds(t, ok)
SpecInflight == InitInflight /\ [][NextInflight]_vars

(***************************************************************************)
(* commands/pay.rs: run, each task one /pay.  The transaction is Postgres  *)
(* READ COMMITTED: its writes are seen by others at the commit; SELECT ... *)
(* FOR UPDATE and UPDATE lock the row until the transaction ends, and a    *)
(* statement that needs a row locked by another transaction waits.         *)
(***************************************************************************)
\* sender = target or amount <= 0: answered with an error, no transaction
PayRefuse(t, sender, target, amount) ==
    /\ tx[t].at = "idle"
    /\ sender = target \/ amount <= 0
    /\ call' = [fn |-> "pay", args |-> <<>>, status |-> "refused",
                result |-> 0, prev |-> NoPrev]
    /\ UNCHANGED <<session, engineVars, repoVars, db, botVars>>

\* db.begin() and the INSERT ... ON CONFLICT DO NOTHING of both rows: a row
\* that is missing is written with balance 0 and stays locked
PayBegin(t, sender, target, amount) ==
    /\ tx[t].at = "idle"
    /\ sender # target /\ amount > 0
    /\ \E new \in {{u \in {sender, target} : db.balance[u] = Absent}} :
         /\ \A u \in new : \A o \in Threads : u \notin tx[o].locks
         /\ tx' = [tx EXCEPT ![t] = [at |-> "begun", sender |-> sender, target |-> target,
                                     amount |-> amount, locks |-> new,
                                     writes |-> [u \in new |-> 0]]]
    /\ UNCHANGED <<call, session, engineVars, repoVars, db, inflight, task>>

\* SELECT balance FROM users WHERE id = sender, the row left unlocked
PayReadSender(t) ==
    /\ tx[t].at = "begun"
    /\ tx[t].sender \in DOMAIN tx[t].writes \/ db.balance[tx[t].sender] # Absent
    /\ \E sender_balance \in {IF tx[t].sender \in DOMAIN tx[t].writes
                              THEN tx[t].writes[tx[t].sender]
                              ELSE db.balance[tx[t].sender].balance} :
         tx' = [tx EXCEPT ![t] = [at |-> "locked", sender |-> @.sender, target |-> @.target,
                                  amount |-> @.amount, locks |-> @.locks,
                                  writes |-> @.writes, sender_balance |-> sender_balance]]
    /\ UNCHANGED <<call, session, engineVars, repoVars, db, inflight, task>>

\* SELECT balance FROM users WHERE id = sender FOR UPDATE: waits while another
\* transaction holds the row, then reads it and keeps it locked
PayLockSender(t) ==
    /\ tx[t].at = "begun"
    /\ \A o \in Threads \ {t} : tx[t].sender \notin tx[o].locks
    /\ tx[t].sender \in DOMAIN tx[t].writes \/ db.balance[tx[t].sender] # Absent
    /\ \E sender_balance \in {IF tx[t].sender \in DOMAIN tx[t].writes
                              THEN tx[t].writes[tx[t].sender]
                              ELSE db.balance[tx[t].sender].balance} :
         tx' = [tx EXCEPT ![t] = [at |-> "locked", sender |-> @.sender, target |-> @.target,
                                  amount |-> @.amount,
                                  locks |-> @.locks \cup {tx[t].sender},
                                  writes |-> @.writes, sender_balance |-> sender_balance]]
    /\ UNCHANGED <<call, session, engineVars, repoVars, db, inflight, task>>

\* sender_balance < amount: tx.rollback() and the error answer
PayInsufficient(t) ==
    /\ tx[t].at = "locked"
    /\ tx[t].sender_balance < tx[t].amount
    /\ tx' = [tx EXCEPT ![t] = [at |-> "idle", locks |-> {}]]
    /\ call' = [fn |-> "pay", args |-> <<>>, status |-> "insufficient", result |-> 0,
                prev |-> NoPrev]
    /\ UNCHANGED <<session, engineVars, repoVars, db, inflight, task>>

\* sender_balance >= amount, then UPDATE users SET balance = balance - amount
\* WHERE id = sender: the row as it is now, locked from here on
PayDebit(t) ==
    /\ tx[t].at = "locked"
    /\ ~(tx[t].sender_balance < tx[t].amount)
    /\ \A o \in Threads \ {t} : tx[t].sender \notin tx[o].locks
    /\ \E balance \in {IF tx[t].sender \in DOMAIN tx[t].writes
                       THEN tx[t].writes[tx[t].sender]
                       ELSE db.balance[tx[t].sender].balance} :
         tx' = [tx EXCEPT ![t].at = "debited",
                          ![t].locks = @ \cup {tx[t].sender},
                          ![t].writes = [u \in DOMAIN @ \cup {tx[t].sender} |->
                                           IF u = tx[t].sender
                                           THEN balance - tx[t].amount
                                           ELSE @[u]]]
    /\ UNCHANGED <<call, session, engineVars, repoVars, db, inflight, task>>

\* UPDATE users SET balance = balance + amount WHERE id = target
PayCredit(t) ==
    /\ tx[t].at = "debited"
    /\ \A o \in Threads \ {t} : tx[t].target \notin tx[o].locks
    /\ \E balance \in {IF tx[t].target \in DOMAIN tx[t].writes
                       THEN tx[t].writes[tx[t].target]
                       ELSE db.balance[tx[t].target].balance} :
         tx' = [tx EXCEPT ![t].at = "credited",
                          ![t].locks = @ \cup {tx[t].target},
                          ![t].writes = [u \in DOMAIN @ \cup {tx[t].target} |->
                                           IF u = tx[t].target
                                           THEN balance + tx[t].amount
                                           ELSE @[u]]]
    /\ UNCHANGED <<call, session, engineVars, repoVars, db, inflight, task>>

\* tx.commit(): the writes reach the table and the locks go
PayCommit(t) ==
    /\ tx[t].at = "credited"
    /\ db' = [db EXCEPT !.balance = [u \in UserIds |->
                                        IF u \in DOMAIN tx[t].writes
                                        THEN [balance |-> tx[t].writes[u]]
                                        ELSE @[u]]]
    /\ tx' = [tx EXCEPT ![t] = [at |-> "idle", locks |-> {}]]
    /\ call' = [fn |-> "pay", args |-> <<tx[t].sender, tx[t].target, tx[t].amount>>,
                status |-> "paid", result |-> 0, prev |-> NoPrev]
    /\ UNCHANGED <<session, engineVars, repoVars, inflight, task>>

\* a statement fails (a deadlock is detected, the connection is lost): `?`
\* returns and the dropped transaction is rolled back
PayAbort(t) ==
    /\ tx[t].at \in {"begun", "locked", "debited", "credited"}
    /\ tx' = [tx EXCEPT ![t] = [at |-> "idle", locks |-> {}]]
    /\ call' = [fn |-> "pay", args |-> <<>>, status |-> "failed", result |-> 0,
                prev |-> NoPrev]
    /\ UNCHANGED <<session, engineVars, repoVars, db, inflight, task>>

\* balances left by earlier commands: a player with no row, players with
\* funds, and one a failed heist left in debt
InitPay ==
    /\ EngineIdle /\ RepoInit /\ FnIdle
    /\ inflight = {}
    /\ task = [t \in Threads |-> [at |-> "idle"]]
    /\ tx = [t \in Threads |-> [at |-> "idle", locks |-> {}]]
    /\ \E first \in {Absent, [balance |-> 5], [balance |-> -210]} :
         db = [balance |-> [u \in UserIds |-> IF u = 1 THEN first ELSE [balance |-> 4]],
               profile |-> [u \in UserIds |-> Absent],
               settings |-> [u \in UserIds |-> Absent]]
NextPay ==
    \E t \in Threads :
      \/ \E sender \in UserIds, target \in UserIds, amount \in {-3, 0, 3} :
            \/ PayRefuse(t, sender, target, amount)
            \/ PayBegin(t, sender, target, amount)
      \/ PayLockSender(t)
      \/ PayInsufficient(t)
      \/ PayDebit(t)
      \/ PayCredit(t)
      \/ PayCommit(t)
      \/ PayAbort(t)
SpecPay == InitPay /\ [][NextPay]_vars

(***************************************************************************)
(* Properties                                                              *)
(***************************************************************************)
Returned == last.status = "returned"

\* number of entries of a loadout equal to key
CountOf(items, key) == Cardinality({i \in 1..Len(items) : items[i] = key})

\* n/d rounded to the nearest integer, halves away from zero (n, d > 0)
RoundedRatio(n, d) == (2 * n + d) \div (2 * d)

\* x + 1 as a u32, by the representation: none at the top of the range
U32IsSuccessor(x, y) == x # U32Max /\ y = [k |-> x.k, o |-> x.o + 1]

\* C1 (as claimed): every returned call leaves thief_skill and pp at least what
\* they were, and pp is exactly the input pp + 1 when the outcome has success
\* and exactly the input pp when it has not, also at the top of the u32 range.
C1_PpPlusOneOnSuccess ==
    Returned =>
        /\ profile.thief_skill >= last.before.thief_skill
        /\ U32Le(last.before.pp, profile.pp)
        /\ last.outcome.success => U32IsSuccessor(last.before.pp, profile.pp)
        /\ ~last.outcome.success => profile.pp = last.before.pp

\* C1 (amended): over any sequence of calls thief_skill and pp never fall below
\* their value at the start or before the call; a call without success leaves pp
\* as it was; a call with success adds exactly 1 to pp, except at u32::MAX, where
\* the saturating add leaves pp at u32::MAX.
C1_PpSaturatingOnSuccess ==
    /\ start.thief_skill <= profile.thief_skill
    /\ U32Le(start.pp, profile.pp)
    /\ Returned =>
        /\ profile.thief_skill >= last.before.thief_skill
        /\ U32Le(last.before.pp, profile.pp)
        /\ (last.outcome.success /\ last.before.pp # U32Max)
              => U32IsSuccessor(last.before.pp, profile.pp)
        /\ (last.outcome.success /\ last.before.pp = U32Max) => profile.pp = U32Max
        /\ ~last.outcome.success => profile.pp = last.before.pp

\* C1 witness: a second or later call succeeds with pp already at u32::MAX
C1_Witness ==
    /\ Returned /\ calls >= 2
    /\ last.outcome.success
    /\ last.before.pp = U32Max
    /\ profile.pp = U32Max

\* C2 (as claimed): get_or_create inserts its default profile only if no entry
\* for the id exists at the moment of the insertion.
C2_DefaultInsertedOnlyIfAbsent ==
    [][\A t \in Threads : GetOrCreateInsert(t) => users[pc[t].user_id] = Absent]_vars

\* C3 (as claimed): once a save for an id has completed, the store holds the
\* profile of the last completed save for that id, and a get_or_create that finds
\* the entry returns that profile.
C3_LastSaveIsReturned ==
    /\ \A u \in UserIds : lastSaved[u] # Absent => users[u] = lastSaved[u]
    /\ (ret.hit /\ ret.saved # Absent) => ret.value = ret.saved

\* x * 100 to the nearest whole number: an f32 chance in hundredths of a point
Hundredths(x) == F32RoundInt(F32Mul(x, F32FromInt(100)))

\* the claimed chance in hundredths of a percentage point, in exact arithmetic
ClaimedChance100(thief_skill, c, m) ==
    LET mode == IF c.mode = None THEN "Standard" ELSE c.mode
        risk == IF c.risk = None THEN "Medium" ELSE c.risk
        adj  == CASE m.tag = "Success" -> 1800
                  [] m.tag = "Partial" -> IntClamp(1200 - 4 * m.diff, 0, 1200)
                  [] m.tag = "Fail" -> -2200
                  [] m.tag = "NotPlayed" -> -1000
    IN  IntClamp(100 * F32Trunc(base_chance(mode, risk)) + 30 * thief_skill
                   + Hundredths(aggregate(c.items).success_pp_bonus) + adj,
                 100, 9900)

\* the same for skills whose term 30 * thief_skill is beyond the integers at
\* hand: from skill 1000 on the clamp at 99 decides
ClaimedChance100Of(thief_skill, c, m) ==
    IF thief_skill > 1000 THEN 9900 ELSE ClaimedChance100(thief_skill, c, m)

\* C5: a returned call reports success exactly when its draw is below the chance
\* it computed, and that chance is clamp(base_chance + (thief_skill/50)*15 +
\* success_pp_bonus + m, 1, 99) with m = +18 / clamp(12 - diff/25, 0, 12) / -22 /
\* -10 for Success / Partial(diff) / Fail / NotPlayed and unset mode and risk
\* read as Standard and Medium (the f32 chance agrees with the formula to the
\* hundredth of a point).
C5_SuccessIffRollBelowChance ==
    Returned =>
        /\ last.outcome.success <=> F32Lt(F32FromInt(last.roll), last.chance)
        /\ Hundredths(last.chance) = ClaimedChance100Of(last.before.thief_skill, cfg, mg)

\* C5 witness: thief_skill 50, Standard, Medium, no items, Success: chance 85,
\* and the draw 50 succeeds
C5_Witness ==
    /\ Returned
    /\ last.before.thief_skill = 50
    /\ cfg = Cfg("Standard", "Medium", <<>>)
    /\ mg = MgSuccess
    /\ last.chance = F32FromInt(85)
    /\ last.roll = 50
    /\ last.outcome.success

\* C6 (as claimed): for every profile and config the chance used with
\* mg = Success is strictly greater than the chance used with mg = Fail.
C6_SuccessChanceAboveFail ==
    F32Lt(Chance(profile, cfg, MgFail), Chance(profile, cfg, MgSuccess))

\* C6 (amended): the chance used with mg = Success is never below the chance
\* used with mg = Fail, and it is strictly greater for every profile whose
\* thief_skill is in the documented range 0..50 (above it both can meet the
\* clamp at 99).
C6_SuccessChanceAboveFailInRange ==
    /\ (Returned /\ mg = MgSuccess) =>
          /\ F32Le(Chance(last.before, cfg, MgFail), last.chance)
          /\ last.before.thief_skill <= 50
                => F32Lt(Chance(last.before, cfg, MgFail), last.chance)
    /\ (Returned /\ mg = MgFail) =>
          /\ F32Le(last.chance, Chance(last.before, cfg, MgSuccess))
          /\ last.before.thief_skill <= 50
                => F32Lt(last.chance, Chance(last.before, cfg, MgSuccess))

\* C6 witness: skill 50, Planowany, Low: a call with Success used the chance 99
\* (the clamp), above the chance its Fail twin would use
C6_Witness ==
    /\ Returned /\ mg = MgSuccess
    /\ last.before.thief_skill = 50
    /\ cfg.mode = "Planowany" /\ cfg.risk = "Low"
    /\ last.chance = Lit.v99
    /\ F32Lt(Chance(last.before, cfg, MgFail), last.chance)

\* fail_penalty_mult of a loadout as an exact fraction <<n, d>>: 0.9 per
\* Adrenaline, floored at 0.7
ExactFailPenaltyMult(items) ==
    LET k == CountOf(items, "Adrenaline")
    IN  IF k <= 3 THEN <<9 ^ k, 10 ^ k>> ELSE <<7, 10>>

\* heat_mult of a loadout as an exact fraction: 1.05 per Adrenaline, capped at 1.2
ExactHeatMult(items) ==
    LET k == CountOf(items, "Adrenaline")
    IN  IF k <= 3 THEN <<105 ^ k, 100 ^ k>> ELSE <<12, 10>>

\* what a failed call charged
PenaltyCharged == -last.outcome.amount_final

\* C7: when the call fails, penalty = reward * 0.35 *
\* fail_penalty_mult rounded to the nearest integer, amount_base = amount_final
\* = -penalty, and the returned balance is the input balance minus penalty.
C7_PenaltyRoundedToNearest ==
    (Returned /\ ~last.outcome.success) =>
        LET f == ExactFailPenaltyMult(cfg.items)
        IN  /\ PenaltyCharged = RoundedRatio(last.reward * 35 * f[1], 100 * f[2])
            /\ last.outcome.amount_base = last.outcome.amount_final
            /\ profile.balance = I64WrappingAdd(last.before.balance, -PenaltyCharged)

\* the claimed heat_gain table
ClaimedHeatGain(c) ==
    LET risk == IF c.risk = None THEN "Medium" ELSE c.risk
    IN  CASE risk = "Low" -> 4 [] risk = "Medium" -> 7 [] risk = "High" -> 10
          [] risk = "Hardcore" -> 14

\* C8: heat_delta is heat_gain(risk) * heat_mult rounded to the nearest integer
\* on success and that plus 2 on failure, with heat_gain 4/7/10/14 for Low/
\* Medium/High/Hardcore, and the returned heat is the input heat + heat_delta
\* (i64 addition).
C8_HeatDelta ==
    Returned =>
        LET h == ExactHeatMult(cfg.items)
            base == RoundedRatio(ClaimedHeatGain(cfg) * h[1], h[2])
        IN  /\ last.outcome.heat_delta = (IF last.outcome.success THEN base ELSE base + 2)
            /\ profile.heat = I64WrappingAdd(last.before.heat, last.outcome.heat_delta)

\* C8 witness: Medium risk, no items, failure: heat_delta 9
C8_Witness ==
    /\ Returned /\ ~last.outcome.success
    /\ cfg.risk = "Medium" /\ cfg.items = <<>>
    /\ last.outcome.heat_delta = 9
    /\ last.before.heat = I64(0)
    /\ profile.heat = I64(9)

\* the claimed reward range: the risk tier's range scaled by the mode's bump
\* and cut to whole numbers
ClaimedRewardRange(c) ==
    LET mode == IF c.mode = None THEN "Standard" ELSE c.mode
        risk == IF c.risk = None THEN "Medium" ELSE c.risk
        base == CASE risk = "Low" -> <<300, 600>> [] risk = "Medium" -> <<600, 1200>>
                  [] risk = "High" -> <<1200, 2400>> [] risk = "Hardcore" -> <<2400, 4200>>
        pct  == CASE mode \in {"Planowany", "Shadow"} -> 115 [] mode = "Ostrozny" -> 105
                  [] mode = "Standard" -> 100 [] mode = "Ryzykowny" -> 110
                  [] mode = "Szybki" -> 95 [] mode = "Hardcore" -> 120
                  [] mode = "Szalony" -> 125
    IN  <<(base[1] * pct) \div 100, (base[2] * pct) \div 100>>

\* C9: when the call succeeds, amount_base = amount_final = reward, reward lies
\* in the inclusive range reward_range(mode, risk) ([600,1200] for Standard/
\* Medium), and the returned balance is the input balance plus reward (i64
\* addition).
C9_SuccessPaysReward ==
    (Returned /\ last.outcome.success) =>
        /\ last.outcome.amount_base = last.reward
        /\ last.outcome.amount_final = last.reward
        /\ ClaimedRewardRange(cfg)[1] <= last.reward
        /\ last.reward <= ClaimedRewardRange(cfg)[2]
        /\ reward_range(ModeOf(cfg), RiskOf(cfg)) = ClaimedRewardRange(cfg)
        /\ profile.balance = I64WrappingAdd(last.before.balance, last.reward)

\* C9 witness: Standard/Medium, balance 1000, the top reward 1200 is paid
C9_Witness ==
    /\ Returned /\ last.outcome.success
    /\ cfg.mode = "Standard" /\ cfg.risk = "Medium"
    /\ last.reward = 1200
    /\ last.before.balance = I64(1000)
    /\ profile.balance = I64(2200)

\* C10: from a profile with thief_skill <= 50, thief_skill is <= 50 after any
\* sequence of calls; each returned call raises it by exactly 1 when it was
\* below 50 and leaves it at 50, whether or not the call succeeded.
C10_SkillCappedAt50 ==
    /\ start.thief_skill <= 50 => profile.thief_skill <= 50
    /\ (Returned /\ last.before.thief_skill < 50)
          => profile.thief_skill = last.before.thief_skill + 1
    /\ (Returned /\ last.before.thief_skill = 50) => profile.thief_skill = 50

\* C10 witness: from skill 49 a call reached 50 and a later failed call left it
\* at 50
C10_Witness ==
    /\ Returned /\ calls >= 2
    /\ start.thief_skill = 49
    /\ last.before.thief_skill = 50
    /\ profile.thief_skill = 50
    /\ ~last.outcome.success

\* C11 (as claimed): resolve_solo cannot fail: for every profile (balance and
\* heat at the limits of the i64 range included), every config and every
\* minigame result the call returns its pair and never aborts.
C11_ResolveSoloNeverAborts == last.status # "panicked"

\* position of a risk tier, Low the lowest
RiskTier(r) == CASE r = "Low" -> 1 [] r = "Medium" -> 2 [] r = "High" -> 3 [] r = "Hardcore" -> 4

\* C12: every base_chance result lies in [5, 95], and for a fixed mode a call
\* with a higher risk tier returns strictly less than a call with a lower one
\* (Low > Medium > High > Hardcore).
C12_BaseChanceDecreasesWithRisk ==
    call.fn = "base_chance" =>
        /\ F32Le(Lit.v5, call.result) /\ F32Le(call.result, Lit.v95)
        /\ (/\ call.prev.fn = "base_chance"
            /\ call.prev.args[1] = call.args[1]
            /\ RiskTier(call.prev.args[2]) < RiskTier(call.args[2]))
              => F32Lt(call.result, call.prev.result)

\* C12 witness: Szalony at Hardcore right after Szalony at High, 24 below 34
C12_Witness ==
    /\ call.fn = "base_chance"
    /\ call.args = <<"Szalony", "Hardcore">>
    /\ call.prev.fn = "base_chance"
    /\ call.prev.args = <<"Szalony", "High">>
    /\ call.result = F32FromInt(24)
    /\ call.prev.result = F32FromInt(34)

\* C20 (as claimed): heat_effects(Hardcore, Hardcore, 95) returns an
\* ambush_chance_pct of at least 90, and no call returns more than 100.
C20_AmbushNearCeiling ==
    call.fn = "heat_effects" =>
        /\ call.result.ambush_chance_pct <= 100
        /\ call.args = <<"Hardcore", "Hardcore", 95>> => call.result.ambush_chance_pct >= 90

\* C20 (amended): heat_effects(Hardcore, Hardcore, 95) returns an
\* ambush_chance_pct of 48, which is the largest any call returns; the ceiling
\* of 100 is never exceeded (nor reached).
C20_AmbushAtMost48 ==
    call.fn = "heat_effects" =>
        /\ call.result.ambush_chance_pct <= 48
        /\ call.result.ambush_chance_pct <= 100
        /\ call.args = <<"Hardcore", "Hardcore", 95>> => call.result.ambush_chance_pct = 48

\* C20 witness: the call of the claim, returning 48
C20_Witness ==
    /\ call.fn = "heat_effects"
    /\ call.args = <<"Hardcore", "Hardcore", 95>>
    /\ call.result.ambush_chance_pct = 48

AggregateReturned == call.fn = "aggregate" /\ call.status = "returned"

\* the items of a list in the order given by a permutation f of its positions
Permuted(items, f) == [i \in 1..Len(items) |-> items[f[i]]]

HasRepeat(items) == \E i, j \in 1..Len(items) : i # j /\ items[i] = items[j]

\* C13: every field of an aggregate lies in its clamp band (for every list, the
\* loadouts of at most 3 distinct items among them), and clamping the returned
\* bundle again leaves it unchanged.
C13_AggregateWithinBands ==
    AggregateReturned =>
        LET e == call.result
        IN  /\ F32Le(Lit.v0_9, e.qte_window_mult) /\ F32Le(e.qte_window_mult, Lit.v1_5)
            /\ 0 <= e.qte_grace_ms /\ e.qte_grace_ms <= 120
            /\ -2 <= e.simon_seq_delta /\ e.simon_seq_delta <= 0
            /\ F32Le(F32One, e.simon_time_mult) /\ F32Le(e.simon_time_mult, Lit.v1_3)
            /\ F32Le(F32Zero, e.timer_extend_pct) /\ F32Le(e.timer_extend_pct, Lit.v0_25)
            /\ F32Le(F32Zero, e.heat_reduce_pct) /\ F32Le(e.heat_reduce_pct, Lit.v0_15)
            /\ F32Le(F32Zero, e.payout_bonus_pct) /\ F32Le(e.payout_bonus_pct, Lit.v0_15)
            /\ F32Le(F32Zero, e.success_pp_bonus) /\ F32Le(e.success_pp_bonus, Lit.v0_15)
            /\ F32Le(Lit.v0_8, e.heat_mult) /\ F32Le(e.heat_mult, Lit.v1_2)
            /\ F32Le(Lit.v0_7, e.fail_penalty_mult) /\ F32Le(e.fail_penalty_mult, Lit.v1_2)
            /\ clamp_effects(e) = e

\* C13 witness: a loadout of 3 distinct items, with fields strictly inside
\* their bands
C13_Witness ==
    /\ AggregateReturned
    /\ call.args[1] = <<"HackerLaptop", "Adrenaline", "ProGloves">>
    /\ call.result.qte_grace_ms = 40
    /\ call.result.simon_seq_delta = -1
    /\ F32Lt(Lit.v1_10, call.result.qte_window_mult)
    /\ F32Lt(call.result.qte_window_mult, Lit.v1_5)

\* C14 (as claimed): for every item list, repeats included, every permutation
\* of the list has the same aggregate.
C14_AggregateOrderIndependent ==
    AggregateReturned =>
        \A f \in Permutations(1..Len(call.args[1])) :
            aggregate(Permuted(call.args[1], f)) = call.result

\* C14 (amended): for every item list in which no item occurs twice, every
\* permutation of the list has the same aggregate.
C14_AggregateOrderIndependentNoRepeat ==
    (AggregateReturned /\ ~HasRepeat(call.args[1])) =>
        \A f \in Permutations(1..Len(call.args[1])) :
            aggregate(Permuted(call.args[1], f)) = call.result

\* C14 witness: three distinct items, two of them multiplying the same field
C14_Witness ==
    /\ AggregateReturned
    /\ call.args[1] = <<"Adrenaline", "LockpickSet", "HackerLaptop">>
    /\ call.result = aggregate(<<"HackerLaptop", "Adrenaline", "LockpickSet">>)
    /\ call.result.qte_window_mult # F32One

\* C15: simon_seq_delta is minus the number of ProGloves and LockpickSet
\* entries, floored at -2: 0 with neither, -1 with one, -2 with both.
C15_SimonSeqDelta ==
    AggregateReturned =>
        LET n == CountOf(call.args[1], "ProGloves") + CountOf(call.args[1], "LockpickSet")
        IN  call.result.simon_seq_delta = (IF n >= 2 THEN -2 ELSE -n)

\* C15 witness: [ProGloves, LockpickSet] gives -2
C15_Witness ==
    /\ AggregateReturned
    /\ call.args[1] = <<"ProGloves", "LockpickSet">>
    /\ call.result.simon_seq_delta = -2

\* the length the claims give: clamp(base + delta, 3, 8) over the integers
ClaimedSimonLength(risk, delta) ==
    LET base == CASE risk = "Low" -> 4 [] risk = "Medium" -> 5 [] risk = "High" -> 6
                  [] risk = "Hardcore" -> 7
    IN  IF delta >= 8 - base THEN 8 ELSE IF delta <= 3 - base THEN 3 ELSE base + delta

\* C16 (as claimed): for every risk tier and every i32 length delta
\* simon_spec_for returns, with length = clamp(base + delta, 3, 8) for base
\* 4/5/6/7 (so the base itself at delta 0, and always within [3, 8]) and with
\* the alphabet A, B, C, D.
C16_SimonLengthClamped ==
    (call.fn = "simon_spec_for" /\ call.status # "pending") =>
        /\ call.status = "returned"
        /\ call.result.length = ClaimedSimonLength(call.args[1], call.args[2])
        /\ call.result.length \in 3..8
        /\ call.result.alphabet = <<"A", "B", "C", "D">>

SimonSpecForDone == call.fn = "simon_spec_for" /\ call.status # "pending"

\* the base length of a tier as the claims give it
ClaimedBaseLen(risk) ==
    CASE risk = "Low" -> 4 [] risk = "Medium" -> 5 [] risk = "High" -> 6 [] risk = "Hardcore" -> 7

\* C17 (as claimed): for every risk tier simon_spec_for(risk, d) returns
\* length 3 for every d <= -2 and length 8 for every d >= 4.
C17_SimonLengthAtTheEnds ==
    SimonSpecForDone =>
        /\ call.args[2] <= -2 => (call.status = "returned" /\ call.result.length = 3)
        /\ call.args[2] >= 4 => (call.status = "returned" /\ call.result.length = 8)

\* C17 (amended): simon_spec_for(risk, d) returns length 3 exactly for the d
\* with base + d <= 3 (d <= -1, -2, -3, -4 for Low, Medium, High, Hardcore; for
\* every tier when d <= -4, while d = -2 gives 4 for High and 5 for Hardcore),
\* and length 8 for every d >= 4 up to i32::MAX - base.  For a larger d the
\* sum base + d overflows: the call panics, or returns length 3 from the
\* wrapped sum.
C17_SimonLengthAtTheEndsByTier ==
    SimonSpecForDone =>
        LET base == ClaimedBaseLen(call.args[1])
            d == call.args[2]
        IN  /\ d <= I32Max - base => call.status = "returned"
            /\ (d <= I32Max - base /\ d <= 3 - base) => call.result.length = 3
            /\ (d <= I32Max - base /\ d > 3 - base) => call.result.length > 3
            /\ d <= -4 => call.result.length = 3
            /\ (d = -2 /\ call.args[1] = "High") => call.result.length = 4
            /\ (d = -2 /\ call.args[1] = "Hardcore") => call.result.length = 5
            /\ (d >= 4 /\ d <= I32Max - base) => call.result.length = 8
            /\ (d > I32Max - base /\ call.status = "returned") => call.result.length = 3

\* C17 witness: Hardcore with delta -2 returns length 5
C17_Witness ==
    /\ call.fn = "simon_spec_for" /\ call.status = "returned"
    /\ call.args = <<"Hardcore", -2>>
    /\ call.result.length = 5

\* |elapsed_ms - target_ms| <= k * window_ms over the integers, k = 1 or 2 and
\* window_ms > 0, with no intermediate value beyond the i32 range
DeviationWithin(elapsed_ms, spec, k) ==
    LET t == spec.target_ms
        w == spec.window_ms
    IN  IF elapsed_ms >= t
        THEN elapsed_ms - t <= w \/ (k = 2 /\ elapsed_ms - t - w <= w)
        ELSE IF elapsed_ms >= 0 THEN t - elapsed_ms <= w \/ (k = 2 /\ t - elapsed_ms - w <= w)
        ELSE IF k = 1 THEN elapsed_ms + w >= t
        ELSE elapsed_ms + w >= t - w

\* the result the claim gives to score_qte
ClaimedScore(elapsed_ms, spec) ==
    IF DeviationWithin(elapsed_ms, spec, 1) THEN "Success"
    ELSE IF DeviationWithin(elapsed_ms, spec, 2) THEN "Partial"
    ELSE "Fail"

\* C19 (as claimed): for every i32 elapsed_ms and every spec returned by
\* qte_spec_for (window at least 40), score_qte returns Success when
\* |elapsed_ms - target_ms| <= window_ms, Partial carrying that deviation when
\* it is above window_ms and at most 2 * window_ms, and Fail otherwise.
C19_ScoreQteByDeviation ==
    /\ (call.fn = "qte_spec_for" /\ call.status = "returned") => call.result.window_ms >= 40
    /\ (call.fn = "score_qte" /\ call.status # "pending") =>
          /\ call.status = "returned"
          /\ call.result.tag = ClaimedScore(call.args[1], call.args[2])
          /\ call.result.tag = "Partial" =>
                LET e == call.args[1]
                    t == call.args[2].target_ms
                IN  \/ e >= t /\ call.result.diff = e - t
                    \/ e < t /\ e >= t - I32Max /\ call.result.diff = t - e

\* two chars are the same letter of the ASCII alphabet up to case, or the same char
SameIgnoringCase(c, d) ==
    \/ c = d
    \/ \E i \in 1..26 : /\ c \in {LowerCase[i], UpperCase[i]}
                        /\ d \in {LowerCase[i], UpperCase[i]}

CheckSimonStepReturned == call.fn = "check_simon_step" /\ call.status = "returned"

\* C18 (as claimed): check_simon_step(expected, got) returns true exactly when
\* expected and got are the same letter ignoring case (expected 'A' with got
\* 'a' is a match).
C18_CheckSimonStepIgnoresCase ==
    CheckSimonStepReturned =>
        (call.result <=> SameIgnoringCase(call.args[1], call.args[2]))

\* C18 (amended): check_simon_step(expected, got) returns true exactly when
\* the two chars are identical (expected 'A' with got 'a' is no match).  The
\* case is normalized by its caller: the simon_key handler compares the
\* upper-cased first char of the key, so there a key starting with the
\* expected letter in either case, and no other key, advances the cursor.
C18_CheckSimonStepExactHandlerFoldsCase ==
    CheckSimonStepReturned =>
        /\ call.result <=> (call.args[1] = call.args[2])
        /\ call.prev.fn = "simon_key" =>
              LET k == call.prev.args[1]
              IN  /\ call.result <=> (Len(k) > 0 /\ SameIgnoringCase(call.args[1], k[1]))
                  /\ call.result => session.cursor = call.prev.result + 1
                  /\ ~call.result => (session.cursor = call.prev.result /\ session.result = MgFail)

\* C18 witness: the key "a" pressed where 'A' is expected advances the cursor
C18_Witness ==
    /\ CheckSimonStepReturned
    /\ call.prev.fn = "simon_key"
    /\ call.prev.args = <<(<<"a">>)>>
    /\ call.args = <<"A", "A">>
    /\ call.result
    /\ session.cursor = call.prev.result + 1

\* the items of a list, as a set
Unlocked(items) == {items[i] : i \in 1..Len(items)}

\* the unlock thresholds as the specification lists them
ClaimedRequiredPp(key) ==
    CASE key = "LockpickSet" -> 0
      [] key = "ProGloves" -> 5
      [] key = "Toolkit" -> 10
      [] key = "SmokeGrenade" -> 15
      [] key = "HackerLaptop" -> 22
      [] key = "Adrenaline" -> 30

\* C22: available_items(pp) is exactly the items of the catalog whose
\* threshold (LockpickSet 0, ProGloves 5, Toolkit 10, SmokeGrenade 15,
\* HackerLaptop 22, Adrenaline 30) is at most pp, and it only grows with pp:
\* after any sequence of resolve_solo calls every item that was unlocked
\* before the first call, or before the last one, is still unlocked.
C22_UnlockedStaysUnlocked ==
    /\ \A p \in {start.pp, last.before.pp, profile.pp} :
          Unlocked(available_items(p)) = {k \in ItemKey : U32Ge(p, ClaimedRequiredPp(k))}
    /\ Unlocked(available_items(start.pp)) \subseteq Unlocked(available_items(last.before.pp))
    /\ Unlocked(available_items(last.before.pp)) \subseteq Unlocked(available_items(profile.pp))

\* C22 witness: a second successful heist takes pp from 21 past the Laptop's
\* threshold of 22, the first one having reached it
C22_Witness ==
    /\ Returned
    /\ calls = 2
    /\ start.pp = U32(21)
    /\ profile.pp = U32(23)
    /\ "HackerLaptop" \notin Unlocked(available_items(start.pp))
    /\ "HackerLaptop" \in Unlocked(available_items(last.before.pp))
    /\ "HackerLaptop" \in Unlocked(available_items(profile.pp))

\* a step of the simon_key handler in a round: the round goes on and no reveal
\* was spent
SimonKeyStep ==
    /\ session.state = "InSimon" /\ session'.state = "InSimon"
    /\ session'.reveals_left = session.reveals_left

\* C24: in a Simon round, once the reveal is over, the first key that differs
\* from the expected char sets the result to Fail at once, and a key matching
\* the last expected position sets it to Success at once (a key matches when
\* its first char is the expected letter in either case, and a matching key
\* before the last position moves the cursor by one and sets no result); once
\* a result is set no later key changes cursor or result; the cursor never
\* exceeds the length of the sequence, and the result is Success only when the
\* cursor equals that length.
C24_SimonKeysSettleTheRound ==
    /\ [](session.state = "InSimon" =>
            /\ session.cursor <= Len(session.seq)
            /\ session.result \in {NoResult, MgSuccess, MgFail}
            /\ session.result = MgSuccess => session.cursor = Len(session.seq)
            /\ session.result = NoResult => session.cursor < Len(session.seq))
    /\ [][SimonKeyStep =>
            /\ session'.seq = session.seq
            /\ session.result # NoResult =>
                  session'.cursor = session.cursor /\ session'.result = session.result
            /\ session.result = NoResult =>
                  /\ call'.prev.fn = "simon_key" /\ call'.prev.result = session.cursor
                  /\ LET k == call'.prev.args[1]
                         expected == session.seq[session.cursor + 1]
                     IN  IF Len(k) > 0 /\ SameIgnoringCase(expected, k[1])
                         THEN /\ session'.cursor = session.cursor + 1
                              /\ session'.result =
                                    IF session.cursor + 1 = Len(session.seq)
                                    THEN MgSuccess ELSE NoResult
                         ELSE /\ session'.cursor = session.cursor
                              /\ session'.result = MgFail]_vars

\* C24 witness: two keys matched, then a wrong key ended the round with Fail
C24_Witness ==
    /\ session.state = "InSimon"
    /\ session.result = MgFail
    /\ session.cursor = 2
    /\ ~session.reveal_until
    /\ call.prev.fn = "simon_key" /\ call.prev.result = 2
    /\ ~call.result

\* C21: the profile a player has on first access has thief_skill 5, balance,
\* heat and pp 0 and the player's id, both when get_or_create makes it for an
\* id not yet in the store and when the first /crime start, with no row
\* persisted yet, puts it into the store.  (No heist has been resolved yet.)
C21_FirstAccessProfile ==
    (calls = 0 /\ users[1] # Absent) =>
        /\ users[1].user_id = 1
        /\ users[1].thief_skill = 5
        /\ users[1].balance = I64(0) /\ users[1].heat = I64(0) /\ users[1].pp = U32(0)

\* C23: a session in InSimon with no result stays in InSimon whatever the
\* player does (reset, resolve, start, mode, risk, item, itemselect, a new
\* /crime start): it reaches Config or Resolved only once the result is set.
C23_RoundCannotBeLeft ==
    [][(session.state = "InSimon" /\ session.result = NoResult) =>
          session'.state = "InSimon"]_vars

\* C25: users.balance of the player is never negative, whatever heists are
\* resolved, also when the penalty of a failed one exceeds the balance.
C25_LedgerNeverNegative ==
    db.balance[1] # Absent => db.balance[1].balance >= 0

\* C26: whatever mode, risk, item, itemselect, start and reset actions came
\* before, the config given to resolve_solo has at most three items and each
\* of them is unlocked at the player's pp (here the pp of the stored profile
\* after the heist, which is no smaller than the pp it was resolved at).
C26_ResolvedLoadoutUnlocked ==
    session.state = "Resolved" =>
        /\ Len(session.view.cfg.items) <= 3
        /\ Unlocked(session.view.cfg.items) \subseteq Unlocked(available_items(users[1].pp))

\* C27: a heist is resolved at most once: a resolve in a session that is
\* Resolved, or still in Config, leaves the stored profile (heat, pp,
\* thief_skill) and the balance of the ledger as they were.
C27_ResolvedAtMostOnce ==
    [][(calls' # calls /\ session.state \in {"Resolved", "Config"}) =>
          /\ users' = users
          /\ db'.balance = db.balance
          /\ db'.profile = db.profile]_vars

\* C28: mode, risk, item and itemselect in a session that is InSimon or
\* Resolved change neither its state nor base_cfg; start enters InSimon only
\* from Config with mode and risk set, and it snapshots that config with the
\* minigame set to Simon and sizes the sequence by it; the config given to
\* resolve_solo after a minigame is that snapshot.
C28_SnapshotConfigResolved ==
    /\ [](session.state = "InSimon" =>
            /\ session.spec = simon_spec_for(session.base_cfg.risk,
                                 aggregate(session.base_cfg.items).simon_seq_delta).value
            /\ Len(session.seq) = session.spec.length
            /\ session.base_cfg.minigame = "Simon")
    /\ [][/\ (/\ call' # call
               /\ call'.fn \in {"mode", "risk", "item", "itemselect"}
               /\ session.state \in {"InSimon", "Resolved"}) => session' = session
          /\ (session'.state = "InSimon" /\ session.state # "InSimon") =>
                /\ session.state = "Config"
                /\ session.cfg.mode # None /\ session.cfg.risk # None
                /\ session'.base_cfg = [session.cfg EXCEPT !.minigame = "Simon"]
          /\ (calls' # calls /\ session.state # "Config") =>
                /\ session'.state = "Resolved"
                /\ session'.view.cfg = session.base_cfg
                /\ session'.base_cfg = session.base_cfg]_vars

\* C28 witness: a round with a loadout was played to Success and resolved, and
\* the risk button pressed after that changed nothing
C28_Witness ==
    /\ session.state = "Resolved"
    /\ session.view.mg = MgSuccess
    /\ session.view.cfg = session.base_cfg
    /\ session.base_cfg.items = <<"LockpickSet">>
    /\ session.base_cfg.risk = "Low"
    /\ call.fn = "risk"

\* C29: for each (user id, command name) at most one execution is in flight:
\* the inflight map holds exactly the keys of the executions between their
\* admission and their end, no two executions share a key, an invocation is
\* admitted only while its key is not in the map, a rejected one changes
\* nothing and runs nothing, and the end of an execution (success, error, or
\* the closed semaphore) takes its key out of the map.
C29_OneExecutionPerKey ==
    /\ [](/\ inflight = {task[t].key : t \in {u \in Threads : task[u].at # "idle"}}
          /\ \A t \in Threads, u \in Threads :
               (/\ task[t].at # "idle" /\ task[u].at # "idle"
                /\ task[t].key = task[u].key) => t = u)
    /\ [][/\ \A t \in Threads :
               (task[t].at = "idle" /\ task'[t].at # "idle") =>
                  /\ task'[t].key \notin inflight
                  /\ task'[t].at = "admitted"
          /\ (call' # call /\ call'.status = "rejected") =>
                /\ call'.args[2] \in inflight
                /\ UNCHANGED <<inflight, task>>
          /\ \A t \in Threads :
               (task[t].at # "idle" /\ task'[t].at = "idle") =>
                  /\ task[t].key \notin inflight'
                  /\ call'.status \in {"ended", "closed"}
                  /\ call'.status = "ended" <=> task[t].at = "running"]_vars

\* C29 witness: an invocation was rejected while another task runs the same
\* user's same command
C29_Witness ==
    /\ call.fn = "command"
    /\ call.status = "rejected"
    /\ \E t \in Threads : task[t].at = "running" /\ task[t].key = call.args[2]

BalanceOf(d, u) == IF d.balance[u] = Absent THEN 0 ELSE d.balance[u].balance
RECURSIVE TotalBalance(_, _)
TotalBalance(d, us) ==
    IF us = {} THEN 0
    ELSE LET u == CHOOSE x \in us : TRUE
         IN  BalanceOf(d, u) + TotalBalance(d, us \ {u})

\* C30: /pay conserves currency and never overdraws: no step changes the sum
\* of the balances or lowers a balance below zero; a /pay answered with an
\* error (amount <= 0, sender = recipient, too little money, a failed
\* statement) changes no balance; the balances change only at the commit of
\* a transfer with amount > 0 between two players, the sender holding at least
\* the amount, and then the sender has exactly the amount less, the recipient
\* exactly the amount more, and everybody else what they had.
C30_PayConservesAndNeverOverdraws ==
    [][/\ TotalBalance(db', UserIds) = TotalBalance(db, UserIds)
       /\ \A u \in UserIds :
            BalanceOf(db', u) < BalanceOf(db, u) => BalanceOf(db', u) >= 0
       /\ (call' # call /\ call'.status # "paid") => db' = db
       /\ db' # db =>
            /\ call'.fn = "pay" /\ call'.status = "paid"
            /\ call'.args[1] # call'.args[2]
            /\ call'.args[3] > 0
            /\ BalanceOf(db, call'.args[1]) >= call'.args[3]
            /\ BalanceOf(db', call'.args[1]) = BalanceOf(db, call'.args[1]) - call'.args[3]
            /\ BalanceOf(db', call'.args[2]) = BalanceOf(db, call'.args[2]) + call'.args[3]
            /\ \A u \in UserIds \ {call'.args[1], call'.args[2]} :
                 db'.balance[u] = db.balance[u]]_vars

\* C30 witness: a transfer was committed while a second /pay of the same
\* sender waits for the row, and what is left no longer covers the second
C30_Witness ==
    /\ call.fn = "pay"
    /\ call.status = "paid"
    /\ \E t \in Threads :
         /\ tx[t].at = "begun"
         /\ tx[t].sender = call.args[1]
         /\ BalanceOf(db, tx[t].sender) < tx[t].amount
         /\ BalanceOf(db, tx[t].sender) + call.args[3] >= tx[t].amount

==============================================================================
